---- MODULE Spec2Model ----
(***************************************************************************)
(* A model of the location resolver of etomon-location                     *)
(* (src/src/api/server/GeoResolver.ts): the canonicalizer                  *)
(* (queryFromLocation / locationFromQuery), the cache-key deriver, the     *)
(* resolution cascade (resolveLocation) and the aggregate resolver         *)
(* (resolveLocations / resolveLocationsInner).                             *)
(*                                                                         *)
(* JavaScript objects are functions from the keys they own to values.  A   *)
(* key that is absent reads as undefined; a key that is present may hold   *)
(* undefined explicitly.  Strings, booleans ("true"/"false"), null and     *)
(* undefined are strings; a location sub-object is a function, and the     *)
(* undefined location is the empty function.                               *)
(***************************************************************************)
EXTENDS Integers, Sequences, FiniteSets, TLC

(***************************************************************************)
(* Bounds of the model                                                     *)
(***************************************************************************)
\* resolutions started in one behaviour
MaxCalls == 2
\* facet keys the inputs of one behaviour carry
MaxFields == 2
\* flags (resolveIpWithGeo, fromCache) an input object carries
MaxFlags == 1
\* raw results in one provider response
MaxResults == 1
\* upstream calls that fail (or answer without a value) in one behaviour
MaxFaults == 1

(***************************************************************************)
(* Values and objects                                                      *)
(***************************************************************************)
Undef == "undefined"
Null == "null"
NoLoc == << >>
EmptyObject == << >>

UndefOf(k) == IF k = "location" THEN NoLoc ELSE Undef

Has(o, k) == k \in DOMAIN o
Get(o, k) == IF k \in DOMAIN o THEN o[k] ELSE UndefOf(k)
Put(o, k, v) == [x \in (DOMAIN o) \cup {k} |-> IF x = k THEN v ELSE o[x]]
Del(o, k) == [x \in (DOMAIN o) \ {k} |-> o[x]]

\* JavaScript truthiness of a string-encoded value
Truthy(v) == v \notin {Undef, Null, "", "false"}
\* a || b
Or(a, b) == IF Truthy(a) THEN a ELSE b

\* String.prototype.toLowerCase on the strings of the model
toLowerCase(s) == IF s = "US" THEN "us" ELSE s

(***************************************************************************)
(* Static reference data                                                   *)
(***************************************************************************)
\* countries-list: countryData[code]
countryData == [US |-> [name |-> "United States", languages |-> <<"en">>, phone |-> "1"]]
\* countries-list: languageData[code].name
languageData == [en |-> "English"]
\* country-code-lookup: byIso(code).internet, null for an unknown code
byIsoInternet(c) == IF c = "US" THEN "US" ELSE Null

(***************************************************************************)
(* Safe label                                                              *)
(***************************************************************************)
RECURSIVE Join(_)
Join(parts) ==
    IF Len(parts) = 0 THEN ""
    ELSE IF Len(parts) = 1 THEN parts[1]
    ELSE parts[1] \o ", " \o Join(Tail(parts))

LabelLocation(location) ==
    LET cands == << Or(Get(location, "locality"), Get(location, "administrativeLevel2")),
                    Get(location, "administrativeLevel1"),
                    Get(location, "countryName") >>
        parts == SelectSeq(cands, Truthy)
    IN  IF Len(parts) > 0 THEN Join(parts)
        ELSE IF Truthy(Get(location, "address")) THEN Get(location, "address")
        ELSE Null

LabelLocationSafe(location) == Or(LabelLocation(location), "")

(***************************************************************************)
(* Canonicalizer                                                           *)
(***************************************************************************)
QueryKeys == {"administrativeLevel1", "administrativeLevel2", "country", "locality",
              "address", "ipAddress", "resolveIpWithGeo", "location", "id", "_id", "region"}

\* variant of the definition below that defaults an absent radius bound to 1
QueryLocationUnitRadius(loc) ==
    IF loc # NoLoc /\ Has(loc, "coordinates")
    THEN [coordinates |-> loc.coordinates,
          maxDistance |-> IF Has(loc, "maxDistance") THEN loc.maxDistance ELSE 1,
          minDistance |-> IF Has(loc, "minDistance") THEN loc.minDistance ELSE 1]
    ELSE NoLoc

\* variant of the definition below that hands the coordinate pair over latitude first
QueryLocationSwapped(loc) ==
    IF loc # NoLoc /\ Has(loc, "coordinates")
    THEN [coordinates |-> [i \in DOMAIN loc.coordinates |->
                              loc.coordinates[Len(loc.coordinates) + 1 - i]],
          maxDistance |-> IF Has(loc, "maxDistance") THEN loc.maxDistance ELSE 0,
          minDistance |-> IF Has(loc, "minDistance") THEN loc.minDistance ELSE 0]
    ELSE NoLoc

\* the location member of the canonical query
QueryLocation(loc) ==
    IF loc # NoLoc /\ Has(loc, "coordinates")
    THEN [coordinates |-> loc.coordinates,
          maxDistance |-> IF Has(loc, "maxDistance") THEN loc.maxDistance ELSE 0,
          minDistance |-> IF Has(loc, "minDistance") THEN loc.minDistance ELSE 0]
    ELSE NoLoc

queryFromLocation(location) ==
    LET region == IF Get(location, "region") # Undef THEN Get(location, "region")
                  ELSE IF Truthy(Get(location, "country"))
                       THEN byIsoInternet(Get(location, "country"))
                       ELSE Undef
        all == [k \in QueryKeys |->
                 CASE k = "resolveIpWithGeo" ->
                        IF Get(location, "resolveIpWithGeo") # Undef
                        THEN Get(location, "resolveIpWithGeo") ELSE "true"
                   [] k = "location" -> QueryLocation(Get(location, "location"))
                   [] k \in {"id", "_id"} -> Or(Get(location, "_id"), Get(location, "id"))
                   [] k = "region" -> region
                   [] OTHER -> Get(location, k)]
        kept == {k \in QueryKeys : all[k] # UndefOf(k)}
    IN  [k \in kept |-> IF k = "region" /\ Truthy(all[k]) THEN toLowerCase(all[k]) ELSE all[k]]

\* variant of the definition below that drops a safe label it finds instead of
\* computing it
locationFromQueryToggles(result) ==
    IF Has(result, "safeLabel") THEN Del(result, "safeLabel") ELSE Put(result, "safeLabel", "")

\* the object locationFromQuery returns, which is its argument, modified in place
locationFromQuery(result) ==
    LET id == Get(result, "id")
        loc == Get(result, "location")
        r1 == IF loc # NoLoc
              THEN Put(result, "location", Del(Del(loc, "maxDistance"), "minDistance"))
              ELSE result
        r2 == Del(Del(Del(r1, "fromCache"), "ipAddress"), "resolveIpWithGeo")
        r3 == Put(r2, "safeLabel", LabelLocationSafe(r2))
        r4 == IF Get(r3, "location") # NoLoc
              THEN Put(r3, "location", Put(r3.location, "type", "Point"))
              ELSE r3
    IN  Put(r4, "id", id)

\* hashObject + base64: an injective rendering of the canonical query
cacheKey(input) == ToString(queryFromLocation(input))

geoJSONFromLatLng(coordinates) == [coordinates |-> coordinates, type |-> "Point"]

(***************************************************************************)
(* Inputs                                                                  *)
(***************************************************************************)
FacetKeySeq == << "ipAddress", "id", "location", "address", "locality",
                  "administrativeLevel1", "administrativeLevel2", "country" >>
FlagKeySeq == << "resolveIpWithGeo", "fromCache" >>

Range(seq) == {seq[i] : i \in 1..Len(seq)}

InputValues(k) ==
    CASE k = "ipAddress" -> {"8.8.8.8"}
      [] k = "id" -> {"p1"}
      [] k = "location" -> {[coordinates |-> <<10, 20>>]}
      [] k = "address" -> {"1 Main St"}
      [] k = "locality" -> {"Springfield"}
      [] k = "administrativeLevel1" -> {"Illinois"}
      [] k = "administrativeLevel2" -> {"Sangamon"}
      [] k = "country" -> {"US"}
      [] k = "resolveIpWithGeo" -> {"false"}
      [] k = "fromCache" -> {"false"}

\* the objects that extend a base object by at most `max` of the keys keys[i..]
RECURSIVE Extend(_, _, _, _)
Extend(base, keys, i, max) ==
    IF i > Len(keys) \/ max = 0 THEN {base}
    ELSE Extend(base, keys, i + 1, max)
         \cup UNION {Extend(Put(base, keys[i], v), keys, i + 1, max - 1) : v \in InputValues(keys[i])}

\* requests for IP escalation: the flag set to true, the IP address alone or with a
\* country
EscalationInputs ==
    { [ipAddress |-> "8.8.8.8", resolveIpWithGeo |-> "true"],
      [ipAddress |-> "8.8.8.8", country |-> "US", resolveIpWithGeo |-> "true"] }

\* the objects a caller passes: at most MaxFields facets and at most MaxFlags flags
Inputs ==
    UNION {Extend(o, FlagKeySeq, 1, MaxFlags) : o \in Extend(EmptyObject, FacetKeySeq, 1, MaxFields)}
    \cup EscalationInputs

\* an input whose location is record-shaped (GeoJSONLocation: type and coordinates)
RecordShaped(input) ==
    [input EXCEPT !["location"] = [coordinates |-> input.location.coordinates, type |-> "Point"]]

FacetKeys == Range(FacetKeySeq)

\* the facet keys two inputs carry between them
FacetsOf(a, b) == ((DOMAIN a) \cup (DOMAIN b)) \cap FacetKeys

(***************************************************************************)
(* Provider responses (Google geocoding) and their normalization           *)
(***************************************************************************)
NoGeometry == << >>

AdminTypeName(n) == "administrative_area_level_" \o ToString(n)
MaxAdminLevel == 10
IsAdminType(t) == \E n \in 1..MaxAdminLevel : t = AdminTypeName(n)
AdminLevelOf(t) == CHOOSE n \in 1..MaxAdminLevel : t = AdminTypeName(n)

Includes(types, t) == \E i \in 1..Len(types) : types[i] = t

\* Array.prototype.sort without a comparator orders the keys by their decimal strings
StringLess(a, b) ==
    LET da == IF a >= 10 THEN << a \div 10, a % 10 >> ELSE << a >>
        db == IF b >= 10 THEN << b \div 10, b % 10 >> ELSE << b >>
    IN  \/ da[1] < db[1]
        \/ da[1] = db[1] /\ Len(da) < Len(db)
        \/ da[1] = db[1] /\ Len(da) = 2 /\ Len(db) = 2 /\ da[2] < db[2]

RECURSIVE SortedKeys(_)
SortedKeys(S) ==
    IF S = {} THEN << >>
    ELSE LET m == CHOOSE v \in S : \A w \in S \ {v} : StringLess(v, w)
         IN  << m >> \o SortedKeys(S \ {m})

\* the walk over rawResult.address_components: [result, adminLevelMap]
RECURSIVE WalkComponents(_, _, _)
WalkComponents(components, result, adminLevelMap) ==
    IF Len(components) = 0 THEN [result |-> result, adminLevelMap |-> adminLevelMap]
    ELSE LET component == Head(components)
             rest == Tail(components)
             adminTypes == SelectSeq(component.types, IsAdminType)
         IN  IF Includes(component.types, "locality")
             THEN WalkComponents(rest, Put(result, "locality", component.long_name), adminLevelMap)
             ELSE IF Includes(component.types, "sublocality") /\ ~Truthy(Get(result, "locality"))
             THEN WalkComponents(rest, Put(result, "locality", component.long_name), adminLevelMap)
             ELSE IF Len(adminTypes) > 0
             THEN WalkComponents(rest, result,
                                 Put(adminLevelMap, AdminLevelOf(adminTypes[1]), component.long_name))
             ELSE IF Includes(component.types, "country")
             THEN WalkComponents(rest, Put(result, "country", component.short_name), adminLevelMap)
             ELSE WalkComponents(rest, result, adminLevelMap)

HasGeometry(rawResult) ==
    rawResult.geometry # NoGeometry /\ Has(rawResult.geometry, "lat") /\ Has(rawResult.geometry, "lng")

\* one iteration of processGoogleResponse, for a raw result that has a geometry
processGoogleResult(query, rawResult) ==
    LET r1 == IF Get(query, "location") # NoLoc THEN query
              ELSE Put(query, "location",
                       geoJSONFromLatLng(<< rawResult.geometry.lng, rawResult.geometry.lat >>))
        r2 == IF Truthy(rawResult.formatted_address)
              THEN Put(r1, "address", rawResult.formatted_address) ELSE r1
        r3 == IF Truthy(rawResult.place_id)
              THEN Put(Put(r2, "id", rawResult.place_id), "_id", rawResult.place_id) ELSE r2
        w == WalkComponents(rawResult.address_components, r3, << >>)
        lowestLevels == SubSeq(SortedKeys(DOMAIN w.adminLevelMap), 1,
                               IF Cardinality(DOMAIN w.adminLevelMap) < 2
                               THEN Cardinality(DOMAIN w.adminLevelMap) ELSE 2)
        level(i) == IF Len(lowestLevels) >= i THEN w.adminLevelMap[lowestLevels[i]] ELSE Undef
    IN  Put(Put(w.result, "administrativeLevel1", level(1)), "administrativeLevel2", level(2))

Component(types, long, short) == [types |-> types, long_name |-> long, short_name |-> short]

rawPlace ==
    [place_id |-> "p1", geometry |-> [lat |-> 40, lng |-> 30],
     formatted_address |-> "Springfield, IL, USA",
     address_components |->
        << Component(<< "locality", "political" >>, "Springfield", "Springfield"),
           Component(<< "administrative_area_level_2", "political" >>, "Sangamon County", "Sangamon County"),
           Component(<< "administrative_area_level_1", "political" >>, "Illinois", "IL"),
           Component(<< "country", "political" >>, "United States", "US") >>]

rawBare ==
    [place_id |-> Undef, geometry |-> [lat |-> 41, lng |-> 31],
     formatted_address |-> Undef, address_components |-> << >>]

rawNoGeometry ==
    [place_id |-> "p2", geometry |-> NoGeometry,
     formatted_address |-> "Nowhere", address_components |-> << >>]

GoodRaws == {rawPlace, rawBare}

SeqsUpTo(S, n) == UNION {[1..m -> S] : m \in 0..n}

\* the result lists a provider response can carry
Responses(withFault) ==
    IF withFault
    THEN {r \in SeqsUpTo(GoodRaws \cup {rawNoGeometry}, MaxResults) :
             \E i \in 1..Len(r) : r[i] = rawNoGeometry}
    ELSE SeqsUpTo(GoodRaws, MaxResults)

(***************************************************************************)
(* IP geolocation database                                                 *)
(***************************************************************************)
geoFull == [longitude |-> 50, latitude |-> 60, timezone |-> "America/Chicago",
            country |-> "US", subdivision0 |-> "Illinois", subdivision1 |-> Undef,
            city |-> "Springfield"]
geoEmpty == [longitude |-> 0, latitude |-> 0, timezone |-> Undef,
             country |-> Undef, subdivision0 |-> Undef, subdivision1 |-> Undef,
             city |-> Undef]
GeoCityRecords == {geoFull, geoEmpty}

PutIf(o, k, v) == IF Truthy(v) THEN Put(o, k, v) ELSE o

\* variant of the definition below that leaves the identifier of its argument alone
ipOutputUnkeyed(result, geoRes) == PutIf(result, "country", geoRes.country)

\* the object resolveLocationByIpAddress yields: its argument, modified in place
ipOutput(result, geoRes) ==
    LET query == queryFromLocation(result)
        o1 == IF geoRes.longitude # 0 /\ geoRes.latitude # 0
              THEN Put(result, "location",
                       [coordinates |-> << geoRes.longitude, geoRes.latitude >>, type |-> "Point"])
              ELSE result
        o2 == PutIf(o1, "timezone", geoRes.timezone)
        country == geoRes.country
        o3 == PutIf(o2, "country", country)
        known == Truthy(country) /\ country \in DOMAIN countryData
        countryName == IF known THEN countryData[country].name ELSE Undef
        o4 == PutIf(o3, "countryName", countryName)
        o5 == IF known /\ Len(countryData[country].languages) > 0
              THEN Put(o4, "languages",
                       [i \in 1..Len(countryData[country].languages) |->
                           languageData[countryData[country].languages[i]]])
              ELSE o4
        o6 == PutIf(o5, "administrativeLevel1", geoRes.subdivision0)
        o7 == PutIf(o6, "administrativeLevel2", geoRes.subdivision1)
        o8 == PutIf(o7, "locality", geoRes.city)
        address == LabelLocation([locality |-> geoRes.city,
                                  administrativeLevel1 |-> geoRes.subdivision0,
                                  administrativeLevel2 |-> geoRes.subdivision1,
                                  countryName |-> countryName])
        o9 == PutIf(o8, "address", address)
    IN  Put(Put(o9, "id", cacheKey(query)), "_id", cacheKey(query))

(***************************************************************************)
(* Cache store and codec                                                   *)
(***************************************************************************)
\* variant of the encoder below that keeps the first element only
serializeObjectFirst(list) ==
    [format |-> "msgpack", data |-> IF list = << >> THEN << >> ELSE << Head(list) >>]

\* encoder.serializeObject / deserializeObject (msgpack): an opaque buffer
\* that decodes to the list it was made from
serializeObject(list) == [format |-> "msgpack", data |-> list]
deserializeObject(buffer) == buffer.data

\* a null element of a record list
NullRecord == [null |-> Null]
IsNull(r) == r = NullRecord

(***************************************************************************)
(* The cascade: facets, branch conditions and narrow probes                *)
(***************************************************************************)
defaultResolvePriorities ==
    << "ipAddress", "id", "location", "googlePlaceId", "address", "locality",
       "administrativeLevel1", "administrativeLevel2", "country" >>

\* Array.prototype.slice(start): the copy of a list from a zero-based index on
slice(list, start) == SubSeq(list, start + 1, Len(list))

\* variant of the accessor below that hands the list out back to front
resolvePriorityReversed ==
    [i \in DOMAIN defaultResolvePriorities |->
        defaultResolvePriorities[Len(defaultResolvePriorities) + 1 - i]]

\* the resolvePriority accessor of a resolver constructed with the default list
resolvePriority == slice(defaultResolvePriorities, 0)

\* query[priority] is truthy
Carries(query, priority) ==
    IF priority = "location" THEN Get(query, "location") # NoLoc
    ELSE Truthy(Get(query, priority))

\* variant of the rule below that tests the canonical query only, not the fields of
\* `result`
BranchOnQueryOnly(priority, query, result) ==
    IF priority = "ipAddress" /\ Truthy(Get(query, "ipAddress")) THEN "ipAddress"
    ELSE IF priority = "location" /\ Get(query, "location") # NoLoc
            /\ Len(Get(query, "location").coordinates) > 0
    THEN "location"
    ELSE IF priority \in {"id", "address", "locality", "administrativeLevel2",
                          "administrativeLevel1", "country"}
            /\ Truthy(Get(query, priority))
    THEN priority
    ELSE "skip"

\* the branch of the loop body taken for a priority; "skip" when none is
Branch(priority, query, result) ==
    IF Get(result, "location") = NoLoc /\ ~Truthy(Get(query, "ipAddress"))
       /\ ~Carries(query, priority)
    THEN "skip"
    ELSE IF priority = "ipAddress" /\ Truthy(Get(query, "ipAddress"))
            /\ Get(query, "id") = Get(result, "id")
    THEN "ipAddress"
    ELSE IF priority = "id" /\ Truthy(Get(query, "id")) /\ Get(query, "id") = Get(result, "id")
    THEN "id"
    ELSE IF priority = "location" /\ Get(query, "location") # NoLoc
            /\ Len(Get(query, "location").coordinates) > 0
            /\ Get(result, "location") = Get(query, "location")
    THEN "location"
    ELSE IF priority \in {"address", "locality", "administrativeLevel2",
                          "administrativeLevel1", "country"}
            /\ Truthy(Get(query, priority)) /\ Get(result, priority) = Get(query, priority)
    THEN priority
    ELSE "skip"

\* copy the listed keys of the query that are truthy
Pick(query, keys) == [k \in {x \in keys : Truthy(Get(query, x))} |-> query[k]]

\* the narrow cache-probe query of a facet
NarrowProbe(facet, query) ==
    CASE facet = "id" -> [_id |-> query.id]
      [] facet = "location" -> query
      [] facet = "address" -> [address |-> query.address]
      [] facet = "locality" ->
            Pick(query, {"locality", "administrativeLevel2", "administrativeLevel1", "country"})
      [] facet = "administrativeLevel2" ->
            Pick(query, {"administrativeLevel2", "administrativeLevel1", "country"})
      [] facet = "administrativeLevel1" ->
            Pick(query, {"administrativeLevel1", "country"})
      [] facet = "country" -> [country |-> query.country]

\* variant of the table below in which the component facets use the address-text strategy
StrategyOfAddressText(facet) ==
    CASE facet = "ipAddress" -> "resolveLocationByIpAddress"
      [] facet = "id" -> "resolveLocationByPlaceId"
      [] facet = "location" -> "resolveLocationByLatitudeAndLongitude"
      [] OTHER -> "resolveLocationByAddress"

\* the lookup strategy a facet resolves with on a probe miss
StrategyOf(facet) ==
    CASE facet = "ipAddress" -> "resolveLocationByIpAddress"
      [] facet = "id" -> "resolveLocationByPlaceId"
      [] facet = "location" -> "resolveLocationByLatitudeAndLongitude"
      [] facet = "address" -> "resolveLocationByAddress"
      [] OTHER -> "resolveLocationByAddressComponents"

\* first index at or after i whose priority takes a branch, 0 when there is none
NextMatch(i, query, result) ==
    LET hits == {j \in i..Len(resolvePriority) :
                    Branch(resolvePriority[j], query, result) # "skip"}
    IN  IF hits = {} THEN 0 ELSE CHOOSE j \in hits : \A h \in hits : j <= h

(***************************************************************************)
(* Enrichment                                                              *)
(***************************************************************************)
\* getTimezone fails before any request when the record has no coordinates
TimezoneRequestable(result) == Get(queryFromLocation(result), "location") # NoLoc

\* getTimezone on a response that carries a timeZoneId
getTimezone(result, timeZoneId) ==
    LET query == queryFromLocation(result)
        r1 == IF Get(result, "location") # NoLoc THEN result
              ELSE Put(result, "location", geoJSONFromLatLng(query.location.coordinates))
        r2 == Put(r1, "id", Or(Get(r1, "id"), Get(query, "id")))
    IN  Put(r2, "timezone", timeZoneId)

\* getCountryInfo completes: the record has a place and a known country
CountryInfoKnown(result) ==
    LET query == queryFromLocation(result)
    IN  /\ Get(result, "location") # NoLoc \/ Get(query, "location") # NoLoc
        /\ Truthy(Get(query, "country")) /\ Get(query, "country") \in DOMAIN countryData

\* the record after getCountryInfo, which modifies it in place up to the statement that throws
getCountryInfo(result) ==
    LET query == queryFromLocation(result)
        info == countryData[query.country]
        r1 == IF Get(result, "location") # NoLoc THEN result
              ELSE IF Get(query, "location") # NoLoc
              THEN Put(result, "location", geoJSONFromLatLng(query.location.coordinates))
              ELSE result
        r2 == IF Get(result, "location") = NoLoc /\ Get(query, "location") = NoLoc THEN r1
              ELSE Put(r1, "id", Or(Get(r1, "id"), Get(query, "id")))
    IN  IF CountryInfoKnown(result)
        THEN Put(Put(r2, "languages",
                     [i \in 1..Len(info.languages) |-> languageData[info.languages[i]]]),
                 "phoneCode", info.phone)
        ELSE r2

NeedsTimezone(result) == Get(result, "timezone") = Undef
NeedsCountryInfo(result) == ~Has(result, "languages") \/ Get(result, "phoneCode") = Undef

\* outcomes of the timezone request: a zone id, an answer without one, a failure
TimezoneOutcomes == {"Etc/UTC", "none", "error"}

\* variant of the try block below in which a failed lookup loses the record
EnrichOrNull(result, tz) ==
    IF NeedsTimezone(result) /\ (~TimezoneRequestable(result) \/ tz \in {"error", "none"})
    THEN NullRecord
    ELSE LET r == IF NeedsTimezone(result) THEN getTimezone(result, tz) ELSE result
         IN  IF ~NeedsCountryInfo(r) THEN r
             ELSE IF CountryInfoKnown(r) THEN getCountryInfo(r) ELSE NullRecord

\* the try block of resolveLocationsInner for a record and a timezone outcome:
\* the value of `result` after it
Enrich(result, tz) ==
    LET afterTz == IF ~NeedsTimezone(result) THEN [stop |-> FALSE, result |-> result]
                   ELSE IF ~TimezoneRequestable(result) \/ tz = "error"
                   THEN [stop |-> TRUE, result |-> result]
                   ELSE IF tz = "none" THEN [stop |-> TRUE, result |-> NullRecord]
                   ELSE [stop |-> FALSE, result |-> getTimezone(result, tz)]
    IN  IF afterTz.stop THEN afterTz.result
        ELSE IF NeedsCountryInfo(afterTz.result) THEN getCountryInfo(afterTz.result)
        ELSE afterTz.result

\* the element resolveLocationsInner yields for it
Normalize(result) == IF IsNull(result) THEN NullRecord ELSE locationFromQuery(result)

(***************************************************************************)
(* State                                                                   *)
(***************************************************************************)
VARIABLES
    cacheOn,    \* options.cache is configured
    cache,      \* the key-value store: key -> buffer
    calls,      \* resolutions started so far
    faults,     \* upstream faults so far
    rl,         \* the resolveLocations generator
    rc,         \* the resolveLocation generator (the cascade) driven by resolveLocationsInner
    basket,     \* resolveLocationsInner: identifiers seen
    out,        \* elements the current resolution has yielded to its consumer
    err,        \* the error the current resolution has thrown, "" when none
    cascaded,   \* history: every record the cascade has yielded, and what became of it
    log,        \* history: the cache and upstream operations of the current resolution
    conv,       \* the calls a caller has made of the static conversion functions
    geo,        \* the IP database of one resolver and the IP resolutions in flight on it
    client      \* a call of GeoClient.ensureLocation and the RPC calls it has made

vars == << cacheOn, cache, calls, faults, rl, rc, basket, out, err, cascaded, log, conv, geo, client >>

IdleRl == [pc |-> "idle", mode |-> "many", input |-> EmptyObject, query |-> EmptyObject,
           useCache |-> FALSE, key |-> "", pending |-> << >>, ret |-> EmptyObject]
IdleRc == [pc |-> "idle", result |-> EmptyObject, query |-> EmptyObject, idx |-> 0,
           facet |-> "", q |-> EmptyObject, pending |-> << >>, src |-> "",
           base |-> EmptyObject]

Event(ev, facet, key, n) == [ev |-> ev, facet |-> facet, key |-> key, n |-> n]

\* the loop of resolveLocation runs on from priority `from`, over the priorities that
\* take no branch, to the next facet or to the end
Advance(c, from) ==
    LET j == NextMatch(from, c.query, c.result)
        facet == IF j = 0 THEN "" ELSE Branch(resolvePriority[j], c.query, c.result)
    IN  IF j = 0 THEN [c EXCEPT !.pc = "end", !.src = "", !.pending = << >>]
        ELSE IF facet = "ipAddress"
        THEN [c EXCEPT !.pc = "ip", !.idx = j, !.facet = facet, !.src = "", !.pending = << >>]
        ELSE [c EXCEPT !.pc = "probe", !.idx = j, !.facet = facet, !.src = "",
                       !.pending = << >>, !.q = NarrowProbe(facet, c.query)]

\* resolveLocationsInner canonicalizes its argument and hands it to resolveLocation,
\* which canonicalizes it again
StartCascade(query) ==
    Advance([IdleRc EXCEPT !.result = queryFromLocation(query),
                           !.query = queryFromLocation(queryFromLocation(query))], 1)

\* the resolutions by IP address that can be in flight on one resolver, and how many
\* each of them runs one after the other
MaxProcs == 3
MaxRuns == 2
Procs == 1..MaxProcs

\* geoipInstance is unset, no Reader.open has been called, no resolution is under way
IdleGeo == [geoipInstance |-> 0, opened |-> 0,
            pc |-> [p \in Procs |-> "idle"], runs |-> [p \in Procs |-> 0],
            reader |-> [p \in Procs |-> 0]]

\* no call of ensureLocation is under way
IdleClient == [pc |-> "idle", inputs |-> << >>, resolveResults |-> FALSE, idx |-> 0,
               out |-> << >>, rpc |-> << >>]

Init ==
    /\ cacheOn \in BOOLEAN
    /\ cache = << >>
    /\ calls = 0
    /\ faults = 0
    /\ rl = IdleRl
    /\ rc = IdleRc
    /\ basket = {}
    /\ out = << >>
    /\ err = ""
    /\ cascaded = << >>
    /\ log = << >>
    /\ conv = << >>
    /\ geo = IdleGeo
    /\ client = IdleClient

Fail(e) ==
    /\ rl' = [rl EXCEPT !.pc = "failed"]
    /\ rc' = [rc EXCEPT !.pc = "idle"]
    /\ err' = e
    /\ faults' = faults + 1

(***************************************************************************)
(* resolveLocations                                                        *)
(***************************************************************************)
\* variant of the test below that does not look at options.cache
UseCacheUnconfigured(query) == Get(query, "fromCache") # "false"

\* whether resolveLocations uses the cache for a canonical query
UseCache(query) == cacheOn /\ Get(query, "fromCache") # "false"

\* no resolution is in flight and the behaviour may start another one
Ready == rl.pc \in {"idle", "done", "failed", "returned", "stopped"} /\ calls < MaxCalls

\* a caller starts resolveLocations(input)
Call(input) ==
    /\ Ready
    /\ Cardinality(FacetsOf(rl.input, input)) <= MaxFields
    /\ LET query == queryFromLocation(input)
           useCache == UseCache(query)
       IN  /\ rl' = [IdleRl EXCEPT !.pc = IF useCache THEN "get" ELSE "run",
                                    !.input = input, !.query = query,
                                    !.useCache = useCache,
                                    !.key = IF useCache THEN cacheKey(query) ELSE ""]
           /\ rc' = IF useCache THEN IdleRc ELSE StartCascade(query)
    /\ calls' = calls + 1
    /\ basket' = {}
    /\ out' = << >>
    /\ err' = ""
    /\ cascaded' = << >>
    /\ log' = << >>
    /\ UNCHANGED << conv, geo, client, cacheOn, cache, faults >>

\* variant of the step below in which a stored empty list counts as no entry
AggregateGetEmptyIsMiss ==
    /\ rl.pc = "get"
    /\ LET hit == rl.key \in DOMAIN cache /\ deserializeObject(cache[rl.key]) # << >>
       IN  \/ /\ hit
              /\ log' = Append(log, Event("get", "", rl.key, 1))
              /\ rl' = [rl EXCEPT !.pc = "cached",
                                  !.pending = deserializeObject(cache[rl.key])]
              /\ UNCHANGED << rc, err, faults >>
           \/ /\ ~hit
              /\ log' = Append(log, Event("get", "", rl.key, 0))
              /\ rl' = [rl EXCEPT !.pc = "run"]
              /\ rc' = StartCascade(rl.query)
              /\ UNCHANGED << err, faults >>
    /\ UNCHANGED << conv, geo, client, cacheOn, cache, calls, basket, out, cascaded >>

\* cache.get(cacheKey) of the aggregate entry
AggregateGet ==
    /\ rl.pc = "get"
    /\ \/ /\ rl.key \in DOMAIN cache
          /\ log' = Append(log, Event("get", "", rl.key, 1))
          /\ rl' = [rl EXCEPT !.pc = "cached", !.pending = deserializeObject(cache[rl.key])]
          /\ UNCHANGED << rc, err, faults >>
       \/ /\ rl.key \notin DOMAIN cache
          /\ log' = Append(log, Event("get", "", rl.key, 0))
          /\ rl' = [rl EXCEPT !.pc = "run"]
          /\ rc' = StartCascade(rl.query)
          /\ UNCHANGED << err, faults >>
       \/ /\ faults < MaxFaults
          /\ log' = Append(log, Event("get", "", rl.key, -1))
          /\ Fail("CacheError")
    /\ UNCHANGED << conv, geo, client, cacheOn, cache, calls, basket, out, cascaded >>

\* the loop over the cached list yields its next element
YieldCached ==
    /\ rl.pc = "cached"
    /\ rl.pending # << >>
    /\ out' = Append(out, Head(rl.pending))
    /\ rl' = [rl EXCEPT !.pending = Tail(rl.pending)]
    /\ UNCHANGED << conv, geo, client, cacheOn, cache, calls, faults, rc, basket, err, cascaded, log >>

\* variant of the step below without the `return`: the cascade runs after the cached list
ReturnCachedFallsThrough ==
    /\ rl.pc = "cached"
    /\ rl.pending = << >>
    /\ rl' = [rl EXCEPT !.pc = "run"]
    /\ rc' = StartCascade(rl.query)
    /\ UNCHANGED << conv, geo, client, cacheOn, cache, calls, faults, basket, out, err, cascaded, log >>

\* the cached list is exhausted: return
ReturnCached ==
    /\ rl.pc = "cached"
    /\ rl.pending = << >>
    /\ rl' = [rl EXCEPT !.pc = "done"]
    /\ UNCHANGED << conv, geo, client, cacheOn, cache, calls, faults, rc, basket, out, err, cascaded, log >>

(***************************************************************************)
(* resolveLocation: the cascade                                            *)
(***************************************************************************)
\* variants of the rule below: no break after cached records; a break after live
\* records; no break after the IP record
AfterFacetCacheContinues(src, query) ==
    IF src = "ipAddress" /\ ~Truthy(Get(query, "resolveIpWithGeo")) THEN "break"
    ELSE "continue"
AfterFacetLiveBreaks(src, query) ==
    IF src \in {"cache", "live"} THEN "break"
    ELSE IF src = "ipAddress" /\ ~Truthy(Get(query, "resolveIpWithGeo")) THEN "break"
    ELSE "continue"
AfterFacetIpContinues(src, query) ==
    IF src = "cache" THEN "break" ELSE "continue"

\* what the loop does once the yields of a facet are over: "break" or "continue"
AfterFacet(src, query) ==
    IF src = "cache" THEN "break"
    ELSE IF src = "ipAddress" /\ ~Truthy(Get(query, "resolveIpWithGeo")) THEN "break"
    ELSE "continue"

\* variant of the rule below in which the loop does not move on to the next priority
ResumeSamePriority(c) ==
    IF c.pending # << >> THEN [c EXCEPT !.pc = "yield"]
    ELSE Advance(c, c.idx)

\* the cascade with the records of its current facet in c.pending: it stays in the
\* facet while records remain, then breaks out of the loop or continues it
Resume(c) ==
    IF c.pending # << >> THEN [c EXCEPT !.pc = "yield"]
    ELSE IF AfterFacet(c.src, c.query) = "break" THEN Advance(c, Len(resolvePriority) + 1)
    ELSE Advance(c, c.idx + 1)

\* the list getLocationsFromCache returns for a probe query
getLocationsFromCache(q) ==
    IF cacheOn /\ cacheKey(q) \in DOMAIN cache
    THEN deserializeObject(cache[cacheKey(q)])
    ELSE << >>

\* variant of the step below that swallows every error of the store as a miss
ProbeCountSwallowsAll ==
    /\ rl.pc = "run"
    /\ rc.pc = "probe"
    /\ \/ /\ LET n == Len(getLocationsFromCache(rc.q))
             IN  /\ rc' = [rc EXCEPT !.pc = IF n > 0 THEN "read" ELSE "live"]
                 /\ log' = Append(log, Event("probe", rc.facet, cacheKey(rc.q), n))
          /\ UNCHANGED << rl, err, faults >>
       \/ /\ cacheOn
          /\ faults < MaxFaults
          /\ log' = Append(log, Event("probe", rc.facet, cacheKey(rc.q), -1))
          /\ rc' = [rc EXCEPT !.pc = "live"]
          /\ faults' = faults + 1
          /\ UNCHANGED << rl, err >>
    /\ UNCHANGED << conv, geo, client, cacheOn, cache, calls, basket, out, cascaded >>

\* getLocationsFromCacheCount(q)
ProbeCount ==
    /\ rl.pc = "run"
    /\ rc.pc = "probe"
    /\ \/ /\ LET n == Len(getLocationsFromCache(rc.q))
             IN  /\ rc' = [rc EXCEPT !.pc = IF n > 0 THEN "read" ELSE "live"]
                 /\ log' = Append(log, Event("probe", rc.facet, cacheKey(rc.q), n))
          /\ UNCHANGED << rl, err, faults >>
       \/ /\ cacheOn
          /\ faults < MaxFaults
          /\ log' = Append(log, Event("probe", rc.facet, cacheKey(rc.q), -1))
          /\ Fail("CacheError")
    /\ UNCHANGED << conv, geo, client, cacheOn, cache, calls, basket, out, cascaded >>

\* getLocationsFromCache(q), after a positive count
ProbeRead ==
    /\ rl.pc = "run"
    /\ rc.pc = "read"
    /\ LET list == getLocationsFromCache(rc.q)
       IN  /\ rc' = Resume([rc EXCEPT !.src = "cache", !.pending = list])
           /\ log' = Append(log, Event("read", rc.facet, cacheKey(rc.q), Len(list)))
    /\ UNCHANGED << conv, geo, client, cacheOn, cache, calls, faults, rl, basket, out, err, cascaded >>

\* variant of the step below in which a failed request is sent again
LiveCallRetries ==
    /\ rl.pc = "run"
    /\ rc.pc = "live"
    /\ \/ /\ \E results \in Responses(FALSE) :
                /\ rc' = Resume([rc EXCEPT !.src = "live", !.pending = results,
                                           !.base = queryFromLocation(rc.result)])
                /\ log' = Append(log, Event("strategy", rc.facet, StrategyOf(rc.facet),
                                            Len(results)))
          /\ UNCHANGED << rl, err, faults >>
       \/ /\ faults < MaxFaults
          /\ log' = Append(log, Event("strategy", rc.facet, StrategyOf(rc.facet), -1))
          /\ faults' = faults + 1
          /\ UNCHANGED << rl, rc, err >>
    /\ UNCHANGED << conv, geo, client, cacheOn, cache, calls, basket, out, cascaded >>

\* the facet's lookup strategy issues its request (makeGoogleRequest)
LiveCall ==
    /\ rl.pc = "run"
    /\ rc.pc = "live"
    /\ \/ /\ \E results \in Responses(FALSE) :
                /\ rc' = Resume([rc EXCEPT !.src = "live", !.pending = results,
                                           !.base = queryFromLocation(rc.result)])
                /\ log' = Append(log, Event("strategy", rc.facet, StrategyOf(rc.facet),
                                            Len(results)))
          /\ UNCHANGED << rl, err, faults >>
       \/ /\ faults < MaxFaults
          /\ \E results \in Responses(TRUE) :
                /\ rc' = Resume([rc EXCEPT !.src = "live", !.pending = results,
                                           !.base = queryFromLocation(rc.result)])
                /\ log' = Append(log, Event("strategy", rc.facet, StrategyOf(rc.facet),
                                            Len(results)))
          /\ faults' = faults + 1
          /\ UNCHANGED << rl, err >>
       \/ /\ faults < MaxFaults
          /\ log' = Append(log, Event("strategy", rc.facet, StrategyOf(rc.facet), -1))
          /\ Fail("LocationQueryError")
    /\ UNCHANGED << conv, geo, client, cacheOn, cache, calls, basket, out, cascaded >>

\* resolveLocationByIpAddress looks the address up and modifies `result` in place
IpLookup ==
    /\ rl.pc = "run"
    /\ rc.pc = "ip"
    /\ \/ /\ \E geoRes \in GeoCityRecords :
                LET output == ipOutput(rc.result, geoRes)
                IN  rc' = Resume([rc EXCEPT !.src = "ipAddress", !.result = output,
                                            !.pending = << output >>])
          /\ log' = Append(log, Event("strategy", rc.facet, StrategyOf(rc.facet), 1))
          /\ UNCHANGED << rl, err, faults >>
       \/ /\ faults < MaxFaults
          /\ log' = Append(log, Event("strategy", rc.facet, StrategyOf(rc.facet), -1))
          /\ Fail("LocationQueryError")
    /\ UNCHANGED << conv, geo, client, cacheOn, cache, calls, basket, out, cascaded >>

(***************************************************************************)
(* resolveLocationsInner                                                   *)
(***************************************************************************)
\* the identifier the seen-set keys a cascade record by
BasketId(result) == Get(result, "id")

\* variant of the test below in which a record without identifier is never found
SeenByDefinedId(seen, result) == BasketId(result) # Undef /\ BasketId(result) \in seen

\* variant of the test below that never finds a record in the seen-set
SeenNever(seen, result) == FALSE

\* whether the seen-set makes resolveLocationsInner pass a cascade record over
Seen(seen, result) == BasketId(result) \in seen

\* how the timezone step of the try block goes for a record and a timezone outcome
TimezoneStep(result, tz) ==
    IF ~NeedsTimezone(result) THEN "present"
    ELSE IF ~TimezoneRequestable(result) THEN "unrequestable"
    ELSE tz

Yielded(rec, facet, src, fate, at, tz) ==
    [rec |-> rec, facet |-> facet, src |-> src, fate |-> fate, at |-> at, tz |-> tz]

\* the consumer pulls: the cascade yields the next record of its facet, and the loop
\* body of resolveLocationsInner deduplicates, enriches and normalizes it;
\* resolveLocations appends the element to its results and yields it on
CascadeYield ==
    /\ rl.pc = "run"
    /\ rl.mode = "many"
    /\ rc.pc = "yield"
    /\ LET item == Head(rc.pending)
           rest == [rc EXCEPT !.pending = Tail(rc.pending)]
           at == Len(cascaded) + 1
       IN  IF rc.src = "live" /\ ~HasGeometry(item)
           THEN \* CouldNotResolveLocationError, rethrown by the strategy as a LocationQueryError
                /\ rl' = [rl EXCEPT !.pc = "failed"]
                /\ rc' = [rc EXCEPT !.pc = "idle"]
                /\ err' = "LocationQueryError"
                /\ log' = Append(log, Event("yield", rc.facet, rc.src, -1))
                /\ UNCHANGED << cascaded, basket, out, faults >>
           ELSE LET rec == IF rc.src = "live" THEN processGoogleResult(rc.base, item) ELSE item
                IN  /\ log' = Append(log, Event("yield", rc.facet, rc.src, at))
                    /\ IF IsNull(rec)
                       THEN \* `if (!result) break`: the cascade is abandoned
                            /\ rc' = [rc EXCEPT !.pc = "end"]
                            /\ cascaded' = Append(cascaded, Yielded(rec, rc.facet, rc.src,
                                                                    "abandoned", 0, ""))
                            /\ UNCHANGED << rl, basket, out, faults, err >>
                       ELSE IF Seen(basket, rec)
                       THEN /\ rc' = Resume(rest)
                            /\ cascaded' = Append(cascaded, Yielded(rec, rc.facet, rc.src,
                                                                    "duplicate", 0, ""))
                            /\ UNCHANGED << rl, basket, out, faults, err >>
                       ELSE \E tz \in TimezoneOutcomes :
                            LET step == TimezoneStep(rec, tz)
                                element == Normalize(Enrich(rec, tz))
                            IN  /\ step = tz \/ tz = "Etc/UTC"
                                /\ tz # "Etc/UTC" => faults < MaxFaults
                                /\ faults' = IF tz # "Etc/UTC" THEN faults + 1 ELSE faults
                                /\ basket' = basket \cup {BasketId(rec)}
                                /\ cascaded' = Append(cascaded,
                                                      Yielded(rec, rc.facet, rc.src, "yielded",
                                                              Len(out) + 1, step))
                                /\ out' = Append(out, element)
                                \* the record the IP strategy yields is the cascade's
                                \* own `result` object
                                /\ rc' = Resume([rest EXCEPT !.result =
                                             IF rc.src = "ipAddress" /\ ~IsNull(element)
                                             THEN element ELSE rc.result])
                                /\ UNCHANGED << rl, err >>
    /\ UNCHANGED << conv, geo, client, cacheOn, cache, calls >>

\* the cascade is over: resolveLocations stores the list it has yielded, and returns
Finish ==
    /\ rl.pc = "run"
    /\ rl.mode = "many"
    /\ rc.pc = "end"
    /\ \/ /\ rl.useCache
          /\ cache' = Put(cache, rl.key, serializeObject(out))
          /\ log' = Append(log, Event("put", "", rl.key, Len(out)))
          /\ rl' = [rl EXCEPT !.pc = "done"]
          /\ rc' = [rc EXCEPT !.pc = "idle"]
          /\ UNCHANGED << err, faults >>
       \/ /\ ~rl.useCache
          /\ rl' = [rl EXCEPT !.pc = "done"]
          /\ rc' = [rc EXCEPT !.pc = "idle"]
          /\ UNCHANGED << cache, log, err, faults >>
       \/ /\ rl.useCache
          /\ faults < MaxFaults
          /\ log' = Append(log, Event("put", "", rl.key, -1))
          /\ Fail("CacheError")
          /\ UNCHANGED cache
    /\ UNCHANGED << conv, geo, client, cacheOn, calls, basket, out, cascaded >>

(***************************************************************************)
(* resolveOneLocation                                                      *)
(***************************************************************************)
\* the arguments of resolveOneLocation: query-shaped or record-shaped objects, or null
OneInputs ==
    Inputs \cup {RecordShaped(i) : i \in {x \in Inputs : Has(x, "location")}} \cup {NullRecord}

\* resolveLocation(result) on the argument itself: `result` is the caller's object,
\* `query` its canonical form; a null argument ends the generator at once
DirectCascade(input) ==
    IF IsNull(input) THEN [IdleRc EXCEPT !.pc = "end"]
    ELSE Advance([IdleRc EXCEPT !.result = input, !.query = queryFromLocation(input)], 1)

\* a caller starts resolveOneLocation(input), which iterates resolveLocation(input)
CallOne(input) ==
    /\ Ready
    /\ Cardinality(FacetsOf(rl.input, input)) <= MaxFields
    /\ rl' = [IdleRl EXCEPT !.pc = "run", !.mode = "one", !.input = input]
    /\ rc' = DirectCascade(input)
    /\ calls' = calls + 1
    /\ basket' = {}
    /\ out' = << >>
    /\ err' = ""
    /\ cascaded' = << >>
    /\ log' = << >>
    /\ UNCHANGED << conv, geo, client, cacheOn, cache, faults >>

\* variant of the definition below in which the loop does not leave: the consumer keeps
\* pulling after the first record
ReturnedKeepsPulling(r, loc) == [r EXCEPT !.ret = loc]

\* the state of resolveOneLocation once the first cascade record has been received:
\* `return loc` leaves the loop and closes the cascade
Returned(r, loc) == [r EXCEPT !.pc = "returned", !.ret = loc]

\* the first record of the cascade arrives: resolveOneLocation returns it
OneReturn ==
    /\ rl.pc = "run"
    /\ rl.mode = "one"
    /\ rc.pc = "yield"
    /\ LET item == Head(rc.pending)
       IN  IF rc.src = "live" /\ ~HasGeometry(item)
           THEN /\ rl' = [rl EXCEPT !.pc = "failed"]
                /\ rc' = [rc EXCEPT !.pc = "idle"]
                /\ err' = "LocationQueryError"
                /\ log' = Append(log, Event("yield", rc.facet, rc.src, -1))
                /\ UNCHANGED cascaded
           ELSE LET rec == IF rc.src = "live" THEN processGoogleResult(rc.base, item) ELSE item
                IN  /\ log' = Append(log, Event("yield", rc.facet, rc.src, Len(cascaded) + 1))
                    /\ cascaded' = Append(cascaded, Yielded(rec, rc.facet, rc.src, "returned", 0, ""))
                    /\ rl' = Returned(rl, rec)
                    \* leaving the for-await closes the generator; a loop that went
                    \* on would resume it
                    /\ rc' = IF rl'.pc = "returned"
                             THEN [rc EXCEPT !.pc = "idle", !.pending = Tail(rc.pending)]
                             ELSE Resume([rc EXCEPT !.pending = Tail(rc.pending)])
                    /\ UNCHANGED err
    /\ UNCHANGED << conv, geo, client, cacheOn, cache, calls, faults, basket, out >>

\* the cascade ends without a record: resolveOneLocation returns null
OneNull ==
    /\ rl.pc = "run"
    /\ rl.mode = "one"
    /\ rc.pc = "end"
    /\ rl.ret = EmptyObject
    /\ rl' = [rl EXCEPT !.pc = "returned", !.ret = NullRecord]
    /\ rc' = [rc EXCEPT !.pc = "idle"]
    /\ UNCHANGED << conv, geo, client, cacheOn, cache, calls, faults, basket, out, err, cascaded, log >>

\* the consumer holds the element resolveLocations has just yielded: the generators
\* are suspended at their `yield`
Holding ==
    /\ rl.mode = "many"
    /\ out # << >>
    /\ \/ rl.pc = "cached"
       \/ /\ rl.pc = "run"
          /\ log # << >> /\ log[Len(log)].ev = "yield"
          /\ cascaded # << >> /\ cascaded[Len(cascaded)].fate = "yielded"

\* variant of the step below in which the closing generator still writes what it has
\* yielded so far back under the aggregate key
StopWritesBack ==
    /\ Holding
    /\ rl' = [rl EXCEPT !.pc = "stopped"]
    /\ rc' = [rc EXCEPT !.pc = "idle"]
    /\ cache' = IF rl.useCache /\ rl.pc = "run" THEN Put(cache, rl.key, serializeObject(out))
                ELSE cache
    /\ UNCHANGED << conv, geo, client, cacheOn, calls, faults, basket, out, err, cascaded, log >>

\* the consumer of resolveLocations leaves its loop after an element (as the RPC
\* handler's resolveOneLocation does after the first): the generators are closed
Stop ==
    /\ Holding
    /\ rl' = [rl EXCEPT !.pc = "stopped"]
    /\ rc' = [rc EXCEPT !.pc = "idle"]
    /\ UNCHANGED << conv, geo, client, cacheOn, cache, calls, faults, basket, out, err, cascaded, log >>

Next ==
    \/ Ready /\ \E input \in Inputs : Call(input)
    \/ Ready /\ \E input \in OneInputs : CallOne(input)
    \/ OneReturn
    \/ OneNull
    \/ Stop
    \/ AggregateGet
    \/ YieldCached
    \/ ReturnCached
    \/ ProbeCount
    \/ ProbeRead
    \/ LiveCall
    \/ IpLookup
    \/ CascadeYield
    \/ Finish

Spec == Init /\ [][Next]_vars

(***************************************************************************)
(* Other users of the cache store                                          *)
(***************************************************************************)
\* between the count and the read of a probe, another user of the store removes the
\* entry under the probed key
StoreEntryRemoved ==
    /\ rl.pc = "run"
    /\ rc.pc = "read"
    /\ cacheOn /\ cacheKey(rc.q) \in DOMAIN cache
    /\ cache' = Del(cache, cacheKey(rc.q))
    /\ UNCHANGED << conv, geo, client, cacheOn, calls, faults, rl, rc, basket, out, err, cascaded, log >>

\* between the count and the read of a probe, another resolution that found nothing
\* writes its empty list under the probed key
StoreEntryOverwritten ==
    /\ rl.pc = "run"
    /\ rc.pc = "read"
    /\ cacheOn /\ cacheKey(rc.q) \in DOMAIN cache
    /\ cache[cacheKey(rc.q)] # serializeObject(<< >>)
    /\ cache' = Put(cache, cacheKey(rc.q), serializeObject(<< >>))
    /\ UNCHANGED << conv, geo, client, cacheOn, calls, faults, rl, rc, basket, out, err, cascaded, log >>

RaceNext == Next \/ StoreEntryRemoved \/ StoreEntryOverwritten

RaceSpec == Init /\ [][RaceNext]_vars

(***************************************************************************)
(* The static conversion functions, called by a caller on its own objects  *)
(***************************************************************************)
\* how many calls in a row a caller makes, each on the value the one before returned
MaxApply == 2

\* records as a caller holds them: a normalized record, a stored record whose _id and
\* id differ, a query with radius bounds and both flags, a query with an explicit
\* region, a query with the escalation flag set
RecordArgs ==
    { [id |-> "p1", _id |-> "p1", address |-> "Springfield, IL, USA",
       locality |-> "Springfield", administrativeLevel1 |-> "Illinois",
       administrativeLevel2 |-> "Sangamon County", country |-> "US",
       location |-> [type |-> "Point", coordinates |-> << 30, 40 >>],
       timezone |-> "Etc/UTC", safeLabel |-> "Springfield, Illinois"],
      [_id |-> "m1", id |-> "p1", country |-> "US"],
      [location |-> [coordinates |-> << 10, 20 >>, maxDistance |-> 5, minDistance |-> 1],
       ipAddress |-> "8.8.8.8", resolveIpWithGeo |-> "false", fromCache |-> "false"],
      [country |-> "US", region |-> "US"],
      [ipAddress |-> "8.8.8.8", resolveIpWithGeo |-> "true", fromCache |-> "true"] }

\* the arguments a caller passes to the conversion functions
ConvArgs == Inputs \cup RecordArgs \cup {NullRecord}

\* variant of the definition below without the early return on a null argument
queryFromLocationCallUnguarded(x) ==
    [fn |-> "queryFromLocation", arg |-> x, after |-> x,
     ret |-> queryFromLocation(IF IsNull(x) THEN EmptyObject ELSE x)]

\* a call of queryFromLocation: what it returns and the argument object after the call
queryFromLocationCall(x) ==
    [fn |-> "queryFromLocation", arg |-> x, after |-> x,
     ret |-> IF IsNull(x) THEN NullRecord ELSE queryFromLocation(x)]

\* a call of locationFromQuery: it edits its argument and returns that same object
locationFromQueryCall(x) ==
    LET edited == IF IsNull(x) THEN NullRecord ELSE locationFromQuery(x)
    IN  [fn |-> "locationFromQuery", arg |-> x, after |-> edited, ret |-> edited]

\* the objects the next call can be made on: any argument at first, then the value the
\* previous call returned
NextArgs ==
    IF conv = << >> THEN ConvArgs
    ELSE IF Len(conv) < MaxApply /\ conv[Len(conv)].fn \in {"queryFromLocation", "locationFromQuery"}
    THEN {conv[Len(conv)].ret}
    ELSE {}

\* the orders in which a caller writes the fields of an object: one order and its reverse
FieldOrder == FacetKeySeq \o FlagKeySeq \o << "_id", "region", "timezone", "safeLabel" >>
InsertionOrders == {FieldOrder, [i \in DOMAIN FieldOrder |-> FieldOrder[Len(FieldOrder) + 1 - i]]}

\* the objects cacheKey is called on: the arguments above and the canonical queries of
\* the records among them
KeyArgs == (ConvArgs \ {NullRecord}) \cup {queryFromLocation(x) : x \in RecordArgs}

\* variant of the definition below that hashes the object as the caller wrote it,
\* field order included, without canonicalizing it
cacheKeyCallAsWritten(x, order) ==
    [fn |-> "cacheKey", arg |-> x, after |-> x,
     order |-> SelectSeq(order, LAMBDA k : Has(x, k)),
     ret |-> ToString(<< SelectSeq(order, LAMBDA k : Has(x, k)), x >>)]

\* a call of cacheKey on the object x whose fields were written in the given order:
\* queryFromLocation reads the fields by name, the hash is taken of what it returns
cacheKeyCall(x, order) ==
    [fn |-> "cacheKey", arg |-> x, after |-> x,
     order |-> SelectSeq(order, LAMBDA k : Has(x, k)),
     ret |-> cacheKey(x)]

\* cacheKey is called on an object, or on two objects one after the other
ApplyCacheKey ==
    /\ \/ conv = << >>
       \/ Len(conv) = 1 /\ conv[1].fn = "cacheKey"
    /\ \E x \in KeyArgs, order \in InsertionOrders : conv' = Append(conv, cacheKeyCall(x, order))
    /\ UNCHANGED << geo, client, cacheOn, cache, calls, faults, rl, rc, basket, out, err, cascaded, log >>

ApplyQueryFromLocation ==
    /\ \E x \in NextArgs : conv' = Append(conv, queryFromLocationCall(x))
    /\ UNCHANGED << geo, client, cacheOn, cache, calls, faults, rl, rc, basket, out, err, cascaded, log >>

ApplyLocationFromQuery ==
    /\ \E x \in NextArgs : conv' = Append(conv, locationFromQueryCall(x))
    /\ UNCHANGED << geo, client, cacheOn, cache, calls, faults, rl, rc, basket, out, err, cascaded, log >>

\* value.replace(/\s/ig, '+') on the strings of the model: only the county name of the
\* full record has white space
replaceWhitespace(value) == IF value = "Sangamon County" THEN "Sangamon+County" ELSE value

\* Array.prototype.join
RECURSIVE join(_, _)
join(c, separator) ==
    IF Len(c) = 0 THEN ""
    ELSE IF Len(c) = 1 THEN c[1]
    ELSE c[1] \o separator \o join(Tail(c), separator)

\* variant of the definition below that sets administrative level 1 before level 2
assembleAddressComponentsLevelOrder(input) ==
    LET query == queryFromLocation(input)
        m1 == IF Truthy(Get(query, "locality"))
              THEN << << "locality", query.locality >> >> ELSE << >>
        m2 == IF Truthy(Get(query, "administrativeLevel1"))
              THEN Append(m1, << "administrative_area_level_1", query.administrativeLevel1 >>) ELSE m1
        m3 == IF Truthy(Get(query, "administrativeLevel2"))
              THEN Append(m2, << "administrative_area_level_2", query.administrativeLevel2 >>) ELSE m2
    IN  IF Truthy(Get(query, "country")) THEN Append(m3, << "country", query.country >>) ELSE m3

\* the Map assembleAddressComponents returns, as its entries in insertion order
assembleAddressComponents(input) ==
    LET query == queryFromLocation(input)
        m1 == IF Truthy(Get(query, "locality"))
              THEN << << "locality", query.locality >> >> ELSE << >>
        m2 == IF Truthy(Get(query, "administrativeLevel2"))
              THEN Append(m1, << "administrative_area_level_2", query.administrativeLevel2 >>) ELSE m1
        m3 == IF Truthy(Get(query, "administrativeLevel1"))
              THEN Append(m2, << "administrative_area_level_1", query.administrativeLevel1 >>) ELSE m2
    IN  IF Truthy(Get(query, "country")) THEN Append(m3, << "country", query.country >>) ELSE m3

\* the request resolveLocationByAddressComponents builds: region and components filter
componentsRequest(result) ==
    LET query == queryFromLocation(result)
        components == assembleAddressComponents(query)
        c == [i \in DOMAIN components |->
                (IF components[i][1] \in {"administrative_area_level_1", "administrative_area_level_2"}
                 THEN "administrative_area" ELSE components[i][1])
                \o ":" \o replaceWhitespace(components[i][2])]
    IN  [region |-> Get(query, "region"), components |-> join(c, "|")]

\* a caller asks for the address components of an object
ApplyAssembleAddressComponents ==
    /\ conv = << >>
    /\ \E x \in KeyArgs :
          conv' = Append(conv, [fn |-> "assembleAddressComponents", arg |-> x, after |-> x,
                                ret |-> assembleAddressComponents(x)])
    /\ UNCHANGED << geo, client, cacheOn, cache, calls, faults, rl, rc, basket, out, err, cascaded, log >>

\* the address-components strategy builds its request for an object
ApplyComponentsRequest ==
    /\ conv = << >>
    /\ \E x \in KeyArgs :
          conv' = Append(conv, [fn |-> "resolveLocationByAddressComponents", arg |-> x,
                                after |-> x, ret |-> componentsRequest(x)])
    /\ UNCHANGED << geo, client, cacheOn, cache, calls, faults, rl, rc, basket, out, err, cascaded, log >>

\* the sets of administrative levels a raw result can carry: one-digit levels and the
\* highest level
LevelSets == {L \in SUBSET {1, 2, 3, MaxAdminLevel} : L # {}}

AdminName(n) == "area " \o ToString(n)

\* the administrative components of a raw result, most specific level first
RECURSIVE LevelComponents(_)
LevelComponents(L) ==
    IF L = {} THEN << >>
    ELSE LET m == CHOOSE v \in L : \A w \in L : w <= v
         IN  << Component(<< AdminTypeName(m), "political" >>, AdminName(m), AdminName(m)) >>
             \o LevelComponents(L \ {m})

rawWithLevels(L) ==
    [place_id |-> "p1", geometry |-> [lat |-> 40, lng |-> 30],
     formatted_address |-> Undef, address_components |-> LevelComponents(L)]

\* processGoogleResponse normalizes one raw result for a query
ApplyProcessGoogleResult ==
    /\ conv = << >>
    /\ \E L \in LevelSets, query \in {EmptyObject, [country |-> "US"]} :
          conv' = Append(conv, [fn |-> "processGoogleResponse", arg |-> query, after |-> query,
                                levels |-> L,
                                ret |-> processGoogleResult(query, rawWithLevels(L))])
    /\ UNCHANGED << geo, client, cacheOn, cache, calls, faults, rl, rc, basket, out, err, cascaded, log >>

\* the objects LabelLocationSafe is called on: the arguments above and objects with a
\* country name, as enrichment leaves them
LabelArgs ==
    ConvArgs \cup
    { [countryName |-> "United States"],
      [administrativeLevel2 |-> "Sangamon County", countryName |-> "United States",
       address |-> "Springfield, IL, USA"],
      [locality |-> "Springfield", administrativeLevel2 |-> "Sangamon County",
       administrativeLevel1 |-> "Illinois", countryName |-> "United States",
       address |-> "Springfield, IL, USA"],
      [locality |-> "", administrativeLevel1 |-> "Illinois", address |-> "Springfield, IL, USA"],
      [locality |-> "", address |-> ""] }

\* a call of LabelLocationSafe: on null, LabelLocation reads `location.locality` before
\* its own test of `location` and a TypeError leaves the call
LabelLocationSafeCall(x) ==
    IF IsNull(x)
    THEN [fn |-> "LabelLocationSafe", arg |-> x, after |-> x, threw |-> TRUE, ret |-> "TypeError"]
    ELSE [fn |-> "LabelLocationSafe", arg |-> x, after |-> x, threw |-> FALSE,
          ret |-> LabelLocationSafe(x)]

ApplyLabelLocationSafe ==
    /\ conv = << >>
    /\ \E x \in LabelArgs : conv' = Append(conv, LabelLocationSafeCall(x))
    /\ UNCHANGED << geo, client, cacheOn, cache, calls, faults, rl, rc, basket, out, err, cascaded, log >>

ConvNext ==
    \/ ApplyLabelLocationSafe
    \/ ApplyQueryFromLocation
    \/ ApplyLocationFromQuery
    \/ ApplyCacheKey
    \/ ApplyAssembleAddressComponents
    \/ ApplyComponentsRequest
    \/ ApplyProcessGoogleResult

ConvSpec == Init /\ [][ConvNext]_vars

(***************************************************************************)
(* GeoClient.ensureLocation                                                *)
(***************************************************************************)
MaxEnsure == 2

\* the inputs of ensureLocation: a string identifier ([string |-> s] stands for the
\* string s), an autocomplete result, a full record, a record reduced to its _id
EnsureInputs ==
    { [string |-> "p1"], [string |-> "p0"],
      [place_id |-> "p1", description |-> "Springfield, IL, USA"],
      [id |-> "p1", _id |-> "p1", address |-> "Springfield, IL, USA", country |-> "US"],
      [_id |-> "p1"], [_id |-> "p0"] }

IsString(input) == Has(input, "string")
IsAutocompleteResult(input) == Has(input, "place_id")

\* the identifier ensureLocation resolves an input by
EnsureIdentifier(input) ==
    IF IsString(input) THEN input.string
    ELSE IF IsAutocompleteResult(input) THEN input.place_id
    ELSE Or(Get(input, "_id"), Get(input, "id"))

\* variant of the definition below that hands an autocomplete result on as it is
ensureLocalUnconverted(input) == input

\* what ensureLocation makes of an input without an RPC call
ensureLocal(input) ==
    IF IsAutocompleteResult(input)
    THEN [id |-> input.place_id, _id |-> input.place_id, address |-> input.description]
    ELSE input

\* what the RPC method resolveOneLocation can answer for {id}: the record of a place
\* the provider knows, or nothing
RpcAnswers(id) ==
    IF id = "p1"
    THEN {[id |-> "p1", _id |-> "p1", address |-> "Springfield, IL, USA", country |-> "US"], NullRecord}
    ELSE {NullRecord}

\* a caller calls ensureLocation(inputs, resolveResults)
EnsureLocation ==
    /\ client.pc = "idle"
    /\ \E inputs \in SeqsUpTo(EnsureInputs, MaxEnsure), resolveResults \in BOOLEAN :
          client' = [IdleClient EXCEPT !.pc = "run", !.inputs = inputs,
                                       !.resolveResults = resolveResults, !.idx = 1]
    /\ UNCHANGED << conv, geo, cacheOn, cache, calls, faults, rl, rc, basket, out, err, cascaded, log >>

\* the next input is an object and resolveResults is false: no RPC call is made
EnsureLocally ==
    /\ client.pc = "run"
    /\ client.idx <= Len(client.inputs)
    /\ ~client.resolveResults /\ ~IsString(client.inputs[client.idx])
    /\ client' = [client EXCEPT !.idx = client.idx + 1,
                                !.out = Append(client.out, [from |-> client.idx,
                                                            rec |-> ensureLocal(client.inputs[client.idx])])]
    /\ UNCHANGED << conv, geo, cacheOn, cache, calls, faults, rl, rc, basket, out, err, cascaded, log >>

\* the next input is a string, or resolveResults is true: resolveOneLocation({id}) is
\* called over RPC and its answer, when there is one, is the input's record
EnsureByRpc ==
    /\ client.pc = "run"
    /\ client.idx <= Len(client.inputs)
    /\ client.resolveResults \/ IsString(client.inputs[client.idx])
    /\ LET query == [id |-> EnsureIdentifier(client.inputs[client.idx])]
       IN  \E answer \in RpcAnswers(query.id) :
              client' = [client EXCEPT
                            !.idx = client.idx + 1,
                            !.rpc = Append(client.rpc, [from |-> client.idx, query |-> query,
                                                        method |-> "resolveOneLocation"]),
                            !.out = IF IsNull(answer) THEN client.out
                                    ELSE Append(client.out, [from |-> client.idx, rec |-> answer])]
    /\ UNCHANGED << conv, geo, cacheOn, cache, calls, faults, rl, rc, basket, out, err, cascaded, log >>

\* every input has been dealt with: ensureLocation returns its list
EnsureReturn ==
    /\ client.pc = "run"
    /\ client.idx > Len(client.inputs)
    /\ client' = [client EXCEPT !.pc = "done"]
    /\ UNCHANGED << conv, geo, cacheOn, cache, calls, faults, rl, rc, basket, out, err, cascaded, log >>

ClientNext == EnsureLocation \/ EnsureLocally \/ EnsureByRpc \/ EnsureReturn

ClientSpec == Init /\ [][ClientNext]_vars

(***************************************************************************)
(* The IP database of a resolver: concurrent resolutions by IP address     *)
(***************************************************************************)
\* resolveLocationByIpAddress calls loadGeoIp: with geoipInstance set it is returned,
\* otherwise Reader.open is called and the caller waits for it
LoadGeoIp(p) ==
    /\ geo.pc[p] = "idle"
    /\ geo.runs[p] < MaxRuns
    /\ IF geo.geoipInstance # 0
       THEN geo' = [geo EXCEPT !.pc[p] = "ready", !.reader[p] = geo.geoipInstance]
       ELSE geo' = [geo EXCEPT !.pc[p] = "opening", !.opened = geo.opened + 1]
    /\ UNCHANGED << conv, client, cacheOn, cache, calls, faults, rl, rc, basket, out, err, cascaded, log >>

\* Reader.open resolves: the reader it made is stored in geoipInstance and returned
OpenResolves(p) ==
    /\ geo.pc[p] = "opening"
    /\ \E r \in 1..geo.opened :
          /\ \A q \in Procs : geo.reader[q] # r
          /\ r # geo.geoipInstance
          /\ geo' = [geo EXCEPT !.pc[p] = "ready", !.geoipInstance = r, !.reader[p] = r]
    /\ UNCHANGED << conv, client, cacheOn, cache, calls, faults, rl, rc, basket, out, err, cascaded, log >>

\* geoip.city(ipAddress) on the reader the resolution got; the resolution ends
CityLookup(p) ==
    /\ geo.pc[p] = "ready"
    /\ geo' = [geo EXCEPT !.pc[p] = "idle", !.runs[p] = geo.runs[p] + 1, !.reader[p] = 0]
    /\ UNCHANGED << conv, client, cacheOn, cache, calls, faults, rl, rc, basket, out, err, cascaded, log >>

GeoNext == \E p \in Procs : LoadGeoIp(p) \/ OpenResolves(p) \/ CityLookup(p)

GeoSpec == Init /\ [][GeoNext]_vars

(***************************************************************************)
(* Properties                                                              *)
(***************************************************************************)
IsPrefix(a, b) == Len(a) <= Len(b) /\ \A i \in 1..Len(a) : a[i] = b[i]

\* the cascade records yielded for a facet, in order
RecordsOf(facet) ==
    LET ys == SelectSeq(cascaded, LAMBDA c : c.facet = facet)
    IN  [i \in 1..Len(ys) |-> ys[i].rec]

\* log position k evaluates a facet: probes its narrow cache entry or invokes its strategy
Evaluates(k) == log[k].ev \in {"probe", "strategy"}

\* no facet is evaluated after log position i
NothingEvaluatedAfter(i) == \A k \in DOMAIN log : k > i => ~Evaluates(k)

\* the position of a facet in the priority list
PriorityIndex(facet) == CHOOSE j \in DOMAIN resolvePriority : resolvePriority[j] = facet

\* the facet whose branch the loop takes next after `facet`, "" when there is none
FacetAfter(facet) ==
    LET j == NextMatch(PriorityIndex(facet) + 1, rc.query, rc.result)
    IN  IF j = 0 THEN "" ELSE Branch(resolvePriority[j], rc.query, rc.result)

\* the facet after `facet` is evaluated after log position i
NextFacetEvaluatedAfter(facet, i) ==
    FacetAfter(facet) # "" =>
        \E k \in DOMAIN log : k > i /\ Evaluates(k) /\ log[k].facet = FacetAfter(facet)

\* C1: when the narrow cache probe of a facet counts one or more entries, the cascade
\* yields the cached records of that probe, in order and from the cache only, invokes
\* no lookup strategy for the facet, and evaluates no facet after it
C1_ProbeHitServesCacheAndStops ==
    \A i \in DOMAIN log :
        (log[i].ev = "probe" /\ log[i].n > 0) =>
            LET facet == log[i].facet
                list == deserializeObject(cache[log[i].key])
                recs == RecordsOf(facet)
            IN  /\ log[i].n = Len(list)
                /\ IsPrefix(recs, list)
                /\ \A c \in Range(cascaded) : c.facet = facet => c.src = "cache"
                /\ rl.pc = "done" =>
                      recs = list \/ (recs # << >> /\ IsNull(recs[Len(recs)]))
                /\ \A k \in DOMAIN log : log[k].ev = "strategy" => log[k].facet # facet
                /\ NothingEvaluatedAfter(i)

\* C1 witness: a resolution has ended after a probe hit served cached records while
\* the query carried a later facet whose branch would have been taken
C1_Witness ==
    /\ rl.pc = "done"
    /\ \E i \in DOMAIN log :
          /\ log[i].ev = "probe" /\ log[i].n > 0
          /\ RecordsOf(log[i].facet) # << >>
          /\ FacetAfter(log[i].facet) # ""

\* C2: when the narrow cache probe of a facet counts no entry, the facet's lookup
\* strategy is invoked next, every record it returns is yielded, and the cascade goes
\* on to the next facet in the priority list
C2_ProbeMissResolvesLiveAndContinues ==
    /\ \A i \in DOMAIN log :
          (log[i].ev = "probe" /\ log[i].n = 0) =>
              IF i = Len(log)
              THEN rl.pc = "run" /\ rc.pc = "live" /\ rc.facet = log[i].facet
              ELSE /\ log[i + 1].ev = "strategy"
                   /\ log[i + 1].facet = log[i].facet
                   /\ log[i + 1].key = StrategyOf(log[i].facet)
    /\ \A i \in DOMAIN log :
          (log[i].ev = "strategy" /\ log[i].facet # "ipAddress" /\ log[i].n >= 0) =>
              LET facet == log[i].facet
              IN  /\ \A c \in Range(cascaded) : c.facet = facet => c.src = "live"
                  /\ Len(RecordsOf(facet)) <= log[i].n
                  /\ (rl.pc = "done" \/ \E k \in DOMAIN log : k > i /\ Evaluates(k)) =>
                        Len(RecordsOf(facet)) = log[i].n
                  /\ rl.pc = "done" => NextFacetEvaluatedAfter(facet, i)

\* C2 witness: a resolution has ended in which a strategy's records were yielded after
\* a probe miss and the next facet was evaluated afterwards
C2_Witness ==
    /\ rl.pc = "done"
    /\ \E i \in DOMAIN log :
          /\ log[i].ev = "probe" /\ log[i].n = 0
          /\ RecordsOf(log[i].facet) # << >>
          /\ \E k \in DOMAIN log : k > i /\ Evaluates(k) /\ log[k].facet # log[i].facet

\* C3 as stated: once the identifier facet has yielded a record, from the cache or from
\* the live place-identifier strategy, no facet after it is evaluated
C3_IdYieldStopsCascade ==
    \A i \in DOMAIN log :
        (log[i].ev = "yield" /\ log[i].facet = "id" /\ log[i].n > 0) =>
            NothingEvaluatedAfter(i)

\* C3 amended: once the identifier facet has yielded a record from the cache, no facet
\* after it is evaluated; after the records of the live place-identifier strategy the
\* cascade goes on to the next facet in the priority list
C3_IdCacheYieldStopsCascade ==
    \A i \in DOMAIN log :
        (log[i].ev = "yield" /\ log[i].facet = "id" /\ log[i].n > 0) =>
            IF log[i].key = "cache" THEN NothingEvaluatedAfter(i)
            ELSE rl.pc = "done" => NextFacetEvaluatedAfter("id", i)

\* C3 witness: a resolution has ended after the identifier facet yielded from the cache
\* while the query carried a later facet whose branch would have been taken
C3_Witness ==
    /\ rl.pc = "done"
    /\ FacetAfter("id") # ""
    /\ \E i \in DOMAIN log :
          log[i].ev = "yield" /\ log[i].facet = "id" /\ log[i].key = "cache" /\ log[i].n > 0

AggregateLookup(n) == log # << >> /\ log[1].ev = "get" /\ log[1].n = n

\* C5: when a cache is configured and the aggregate entry of the query exists, the
\* resolution yields the cached list, in order, and nothing else: it runs no cascade
\* step, no probe, no strategy, no enrichment and no cache write
C5_AggregateHitYieldsCachedListOnly ==
    (cacheOn /\ AggregateLookup(1)) =>
        LET list == deserializeObject(cache[rl.key])
        IN  /\ rl.key = cacheKey(rl.input)
            /\ IsPrefix(out, list)
            /\ rl.pc = "done" => out = list
            /\ Len(log) = 1
            /\ cascaded = << >>
            /\ basket = {}
            /\ rc.pc = "idle"
            /\ rl.pc \in {"cached", "done", "stopped"}

\* C5 witness: a resolution served from the aggregate entry has ended after yielding
\* a cached list of two different elements
C5_Witness ==
    /\ rl.pc = "done"
    /\ cacheOn /\ AggregateLookup(1)
    /\ Len(out) >= 2
    /\ out[1] # out[2]

\* C6 as stated: when the input's from-cache flag is false, the resolution neither
\* reads nor writes the aggregate cache entry
C6_FromCacheFalseBypassesAggregate ==
    (cacheOn /\ Get(rl.input, "fromCache") = "false") =>
        \A i \in DOMAIN log : log[i].ev \notin {"get", "put"}

\* C7: after a cache miss whose resolution has been drained with a cache configured,
\* the entry under the cache key of the original input decodes to the list that was
\* yielded, in the order it was yielded
C7_DrainedMissStoresYieldedList ==
    (cacheOn /\ AggregateLookup(0) /\ rl.pc = "done") =>
        /\ cacheKey(rl.input) \in DOMAIN cache
        /\ deserializeObject(cache[cacheKey(rl.input)]) = out
        /\ log[Len(log)] = Event("put", "", cacheKey(rl.input), Len(out))

\* C7 witness: a drained miss that yielded two different elements has ended
C7_Witness ==
    /\ cacheOn /\ AggregateLookup(0) /\ rl.pc = "done"
    /\ Len(out) >= 2
    /\ out[1] # out[2]

\* the cascade records that are the first to carry their identifier
FirstOccurrences ==
    {i \in DOMAIN cascaded :
        /\ ~IsNull(cascaded[i].rec)
        /\ \A j \in 1..(i - 1) :
              IsNull(cascaded[j].rec) \/ Get(cascaded[j].rec, "id") # Get(cascaded[i].rec, "id")}

\* C8: on the miss path no two yielded records share an identifier: of the cascade
\* records with one identifier only the first is yielded, with the fields of that
\* first occurrence, and the later ones are dropped
C8_FirstOccurrenceWins ==
    rl.mode = "many" =>
        /\ \A i, j \in DOMAIN out :
              (i < j /\ ~IsNull(out[i]) /\ ~IsNull(out[j]) /\ cascaded # << >>) =>
                  Get(out[i], "id") # Get(out[j], "id")
        /\ cascaded # << >> => Len(out) = Cardinality(FirstOccurrences)
        /\ \A i \in DOMAIN cascaded :
              IF i \in FirstOccurrences
              THEN /\ cascaded[i].fate = "yielded"
                   /\ cascaded[i].at \in DOMAIN out
                   /\ LET element == out[cascaded[i].at]
                      IN  ~IsNull(element) =>
                             /\ Get(element, "id") = Get(cascaded[i].rec, "id")
                             /\ Get(element, "address") = Get(cascaded[i].rec, "address")
              ELSE cascaded[i].fate \in {"duplicate", "abandoned"}

\* C8 witness: a resolution has ended in which a cascade record was dropped because an
\* earlier record with different fields carried its identifier
C8_Witness ==
    /\ rl.pc = "done"
    /\ \E i, j \in DOMAIN cascaded :
          /\ i < j
          /\ cascaded[i].fate = "yielded" /\ cascaded[j].fate = "duplicate"
          /\ Get(cascaded[i].rec, "id") = Get(cascaded[j].rec, "id")
          /\ Get(cascaded[i].rec, "address") # Get(cascaded[j].rec, "address")

\* the reference data knows the country of a record
CountryInReferenceData(rec) ==
    Truthy(Get(rec, "country")) /\ Get(rec, "country") \in DOMAIN countryData

\* C9 as stated: when the timezone lookup of a record fails, the record is yielded
\* without a timezone and with the languages and the calling code of its country from
\* the reference data
C9_TimezoneFailureKeepsCountryInfo ==
    \A i \in DOMAIN cascaded :
        (cascaded[i].fate = "yielded" /\ cascaded[i].tz = "error"
            /\ CountryInReferenceData(cascaded[i].rec)) =>
            LET element == out[cascaded[i].at]
            IN  /\ ~IsNull(element)
                /\ Get(element, "timezone") = Undef
                /\ Has(element, "languages")
                /\ Get(element, "phoneCode") = countryData[cascaded[i].rec.country].phone

\* a lookup of the try block threw for cascade record c: the timezone request, or the
\* country lookup after it
LookupThrew(c) ==
    \/ c.tz \in {"error", "unrequestable"}
    \/ /\ c.tz # "none"
       /\ LET r == IF c.tz = "present" THEN c.rec ELSE getTimezone(c.rec, c.tz)
          IN  NeedsCountryInfo(r) /\ ~CountryInfoKnown(r)

\* C10: a lookup that throws during enrichment surfaces no error and does not stop the
\* sequence: the record is still yielded with the fields it had, and a resolution
\* fails only by a cache or strategy operation
C10_EnrichmentFailureIsSwallowed ==
    /\ \A i \in DOMAIN cascaded :
          (cascaded[i].fate = "yielded" /\ LookupThrew(cascaded[i])) =>
              /\ cascaded[i].at \in DOMAIN out
              /\ LET element == out[cascaded[i].at]
                     had == locationFromQuery(cascaded[i].rec)
                 IN  /\ ~IsNull(element)
                     /\ \A k \in DOMAIN had :
                           /\ k \in DOMAIN element
                           /\ k \notin {"location", "id", "timezone"} => element[k] = had[k]
              /\ (i = Len(cascaded) /\ rl.pc = "failed") => log[Len(log)].n = -1
    /\ rl.pc = "failed" => (log # << >> /\ log[Len(log)].n = -1 /\ err # "")
    /\ rl.pc # "failed" => err = ""

\* C10 witness: a resolution has ended in which the timezone request of one record
\* threw and a later record was yielded after it
C10_Witness ==
    /\ rl.pc = "done"
    /\ \E i, j \in DOMAIN cascaded :
          /\ i < j
          /\ cascaded[i].fate = "yielded" /\ cascaded[i].tz = "error"
          /\ cascaded[j].fate = "yielded" /\ ~IsNull(out[cascaded[j].at])

(***************************************************************************)
(* resolveOneLocation and the laziness of the cascade                      *)
(***************************************************************************)
\* resolveOneLocation has returned
OneReturned == rl.mode = "one" /\ rl.pc = "returned"

\* C11 as stated: resolveOneLocation returns what resolveLocations would yield first:
\* the aggregate cache entry is consulted when a cache is configured, and a record that
\* comes from the cascade is returned enriched and normalized; null when there is none
C11_OneIsFirstOfMany ==
    OneReturned =>
        /\ cacheOn => (log # << >> /\ log[1].ev = "get")
        /\ IF cascaded = << >> THEN IsNull(rl.ret)
           ELSE \E tz \in TimezoneOutcomes : rl.ret = Normalize(Enrich(cascaded[1].rec, tz))

\* C12: the cascade is lazy: once resolveOneLocation has received its first record the
\* resolution is over, the yield of that record is the last operation of its history
\* (no later probe, strategy request or enrichment), and no facet after the one that
\* produced the record has been evaluated; a consumer of resolveLocations that stops
\* after an element leaves the generators closed with that yield as the last operation
C12_CascadeIsLazy ==
    /\ (rl.mode = "one" /\ cascaded # << >>) =>
          /\ rl.pc = "returned"
          /\ rc.pc = "idle"
          /\ Len(cascaded) = 1
          /\ rl.ret = cascaded[1].rec
          /\ log[Len(log)] = Event("yield", cascaded[1].facet, cascaded[1].src, 1)
          /\ \A k \in DOMAIN log :
                /\ PriorityIndex(log[k].facet) <= PriorityIndex(cascaded[1].facet)
                /\ Evaluates(k) => k < Len(log)
          /\ out = << >>
    /\ rl.pc = "stopped" =>
          /\ rc.pc = "idle"
          /\ log # << >>
          /\ log[Len(log)].ev \in {"yield", "get"}
          /\ log[Len(log)].ev = "yield" =>
                /\ cascaded[Len(cascaded)].fate = "yielded"
                /\ cascaded[Len(cascaded)].at = Len(out)

\* C12 witness: resolveOneLocation has returned the record of a live strategy while a
\* later facet of the priority list would still have been evaluated by a full drain
C12_Witness ==
    /\ OneReturned
    /\ cascaded # << >>
    /\ cascaded[1].src = "live"
    /\ NextMatch(PriorityIndex(cascaded[1].facet) + 1, rc.query, rc.result) # 0

(***************************************************************************)
(* Order and guards of the facets                                          *)
(***************************************************************************)
\* the position of a facet in the list the resolver was constructed with
ConstructedIndex(facet) ==
    CHOOSE j \in DOMAIN defaultResolvePriorities : defaultResolvePriorities[j] = facet

\* the operations of the history that belong to a facet of the cascade
FacetOps == {i \in DOMAIN log : log[i].facet # ""}

\* the yields of a facet between two positions of the history
YieldsBetween(facet, i, k) ==
    {y \in DOMAIN log : i < y /\ y < k /\ log[y].ev = "yield" /\ log[y].facet = facet}

\* C13: the cascade evaluates the facets in the order of the list given at construction,
\* one after the other: the operations of the history never go back to an earlier
\* facet, a facet's strategy is requested at most once, all the records of a strategy
\* are yielded before any probe or strategy of a later facet, and the resolvePriority
\* accessor returns a list equal to the constructor's
C13_FacetsInPriorityOrder ==
    /\ resolvePriority = defaultResolvePriorities
    /\ \A i, j \in FacetOps :
          i < j => ConstructedIndex(log[i].facet) <= ConstructedIndex(log[j].facet)
    /\ \A i, j \in FacetOps :
          (i < j /\ log[i].ev = "strategy" /\ log[j].ev = "strategy") =>
              log[i].facet # log[j].facet
    /\ \A i, k \in FacetOps :
          (i < k /\ log[i].ev = "strategy" /\ log[i].n >= 0 /\ Evaluates(k)) =>
              /\ ConstructedIndex(log[i].facet) < ConstructedIndex(log[k].facet)
              /\ Cardinality(YieldsBetween(log[i].facet, i, k)) = log[i].n

\* C13 witness: a drained resolution in which a strategy's record was yielded and the
\* strategy of a later facet was requested afterwards
C13_Witness ==
    /\ rl.pc = "done"
    /\ \E i, y, k \in FacetOps :
          /\ i < y /\ y < k
          /\ log[i].ev = "strategy" /\ log[i].n > 0
          /\ log[y].ev = "yield" /\ log[y].facet = log[i].facet
          /\ log[k].ev = "strategy" /\ log[k].facet # log[i].facet

\* the facets other than coordinates and IP address that have a branch in the cascade
GuardedFacets ==
    {"id", "address", "locality", "administrativeLevel2", "administrativeLevel1", "country"}

\* the cascade has issued a probe or a strategy request for the facet
Evaluated(facet) == \E k \in DOMAIN log : Evaluates(k) /\ log[k].facet = facet

\* C14: for every facet other than coordinates and IP address, a cache probe or a
\* strategy request is issued for the facet only if the canonical query carries a value
\* for it and the same field of the cascade's input object equals that value
C14_FacetNeedsCarriedAndUnchangedValue ==
    \A facet \in GuardedFacets :
        Evaluated(facet) =>
            /\ Truthy(Get(rc.query, facet))
            /\ Get(rc.result, facet) = Get(rc.query, facet)

\* C14 witness: a drained resolution in which IP resolution overwrote a field of the
\* input object that the canonical query carries, and the facet of that field was not
\* evaluated
C14_Witness ==
    /\ rl.pc = "done"
    /\ Evaluated("ipAddress")
    /\ \E facet \in GuardedFacets :
          /\ Truthy(Get(rc.query, facet))
          /\ Get(rc.result, facet) # Get(rc.query, facet)
          /\ ~Evaluated(facet)

\* the object carries a non-empty coordinate pair
CoordinatesBearing(x) ==
    Get(x, "location") # NoLoc /\ Len(Get(x, "location").coordinates) > 0

\* the cascade of the resolution has run through the whole priority list or returned
CascadeEnded == (rl.pc = "done" /\ ~AggregateLookup(1)) \/ OneReturned

\* C15 as stated: the IP-address facet of an IP-bearing input, and the coordinates
\* facet of a coordinates-bearing input (none of the facets before it being present),
\* is evaluated on presence alone, whatever the shape of the input's field
C15_PresenceAloneSuffices ==
    CascadeEnded =>
        /\ Truthy(Get(rl.input, "ipAddress")) => Evaluated("ipAddress")
        /\ (/\ CoordinatesBearing(rl.input)
            /\ ~Truthy(Get(rl.input, "ipAddress"))
            /\ ~Truthy(Get(rl.input, "id"))) => Evaluated("location")

(***************************************************************************)
(* Single-facet resolutions                                                *)
(***************************************************************************)
\* the facet fields an input carries
FacetsPresent(x) == IF IsNull(x) THEN {} ELSE (DOMAIN x) \cap FacetKeys

\* the strategy requests of the resolution's history
StrategyCalls == {k \in DOMAIN log : log[k].ev = "strategy"}

\* no cache entry served the resolution: neither the aggregate entry nor a narrow probe
NothingCached == ~AggregateLookup(1) /\ \A k \in DOMAIN log : log[k].ev = "probe" => log[k].n <= 0

\* C16: for an input that carries the country facet only, served by no cache entry, the
\* cascade requests the address-components strategy, for the country facet and from a
\* query carrying that country, exactly once by the time it ends, and requests no other
\* strategy
C16_CountryOnlyUsesAddressComponents ==
    (FacetsPresent(rl.input) = {"country"} /\ NothingCached) =>
        /\ \A k \in StrategyCalls :
              /\ log[k].key = "resolveLocationByAddressComponents"
              /\ log[k].facet = "country"
              /\ log[k].n >= 0 =>
                    /\ Get(rc.base, "country") = Get(rl.input, "country")
                    /\ (DOMAIN rc.base) \cap FacetKeys = {"country"}
        /\ Cardinality(StrategyCalls) <= 1
        /\ CascadeEnded => Cardinality(StrategyCalls) = 1

\* C16 witness: a drained resolution of a country-only input whose one record came from
\* the address-components strategy
C16_Witness ==
    /\ rl.pc = "done"
    /\ FacetsPresent(rl.input) = {"country"}
    /\ NothingCached
    /\ \E k \in StrategyCalls : log[k].n = 1
    /\ Len(out) = 1

\* a drained resolveLocations of an input whose only facet is the IP address and whose
\* resolveIpWithGeo flag is unset, not served from the aggregate entry
IpOnlyDrained ==
    /\ rl.mode = "many"
    /\ rl.pc = "done"
    /\ FacetsPresent(rl.input) = {"ipAddress"}
    /\ Get(rl.input, "resolveIpWithGeo") = Undef
    /\ ~AggregateLookup(1)

\* C17: resolveLocations of {ipAddress} with the flag unset yields exactly one record,
\* the IP database's record for the address, enriched and normalized, whose id is the
\* cache key of the canonical query; the only strategy requested is the IP lookup, so
\* no geocoding request is sent, and no cache probe is made
C17_IpOnlyYieldsOneDatabaseRecord ==
    IpOnlyDrained =>
        /\ Len(out) = 1
        /\ ~IsNull(out[1])
        /\ Get(out[1], "id") = cacheKey(rl.input)
        /\ \E geoRes \in GeoCityRecords, tz \in TimezoneOutcomes :
              out[1] = Normalize(Enrich(ipOutput(rl.query, geoRes), tz))
        /\ Cardinality(StrategyCalls) = 1
        /\ \A k \in DOMAIN log :
              /\ log[k].ev = "strategy" => log[k].key = "resolveLocationByIpAddress"
              /\ log[k].ev # "probe"

\* C17 witness: such a resolution has ended with the record of an address the database
\* knows
C17_Witness ==
    /\ IpOnlyDrained
    /\ Len(out) = 1
    /\ Get(out[1], "country") = "US"

(***************************************************************************)
(* Termination of the cascade                                              *)
(***************************************************************************)
\* how far the loop of the cascade has come in the priority list
Position(c) == IF c.pc = "end" THEN Len(resolvePriority) + 1 ELSE c.idx

\* the steps a facet's branch still has before it: probe, then read or request, then yields
Phase(pc) ==
    CASE pc = "probe" -> 3
      [] pc \in {"read", "live", "ip"} -> 2
      [] pc = "yield" -> 1
      [] OTHER -> 0

\* cascade state `new` is strictly closer to the end of the loop than `old`, in the
\* lexicographic order of (priorities left, steps left in the branch, records left)
Closer(new, old) ==
    \/ Position(new) > Position(old)
    \/ /\ Position(new) = Position(old)
       /\ Phase(new.pc) < Phase(old.pc)
    \/ /\ Position(new) = Position(old)
       /\ Phase(new.pc) = Phase(old.pc)
       /\ Len(new.pending) < Len(old.pending)

\* every step of a running cascade that leaves it running brings it closer to its end
CascadeProgress ==
    (rl.pc = "run" /\ rl'.pc = "run") =>
        /\ Closer(rc', rc)
        /\ Position(rc') <= Len(resolvePriority) + 1

\* the objects the cascade of the current resolution started on
InitialQuery == queryFromLocation(rl.input)
InitialResult == IF rl.mode = "one" THEN rl.input ELSE InitialQuery

\* a resolution on an input none of whose fields takes a branch of the cascade
NoFacetMatches ==
    /\ rl.pc # "idle"
    /\ \/ IsNull(rl.input)
       \/ NextMatch(1, queryFromLocation(InitialQuery), InitialResult) = 0

\* C18: the cascade always terminates: every step of a running cascade strictly
\* advances it in a well-founded order bounded by the length of the priority list; and
\* when no facet matches a field of the input, null input included, the cascade yields
\* no record, raises no error and issues no probe, cache read or strategy request
C18_CascadeTerminatesAndIsQuietWithoutMatch ==
    /\ [][CascadeProgress]_vars
    /\ [](NoFacetMatches =>
            /\ FacetOps = {}
            /\ cascaded = << >>
            /\ err # "LocationQueryError"
            /\ rl.mode = "one" =>
                  /\ err = ""
                  /\ rl.pc \in {"run", "returned"}
                  /\ rl.pc = "returned" => IsNull(rl.ret)
            /\ (rl.mode = "many" /\ ~AggregateLookup(1)) => out = << >>)

\* C18 witness: resolveOneLocation has returned null for a null argument
C18_Witness ==
    /\ OneReturned
    /\ IsNull(rl.input)
    /\ IsNull(rl.ret)
    /\ log = << >>

(***************************************************************************)
(* Failures of the lookup strategies                                       *)
(***************************************************************************)
\* the request of the strategy at position k of the history failed
StrategyFailed(k) == log[k].ev = "strategy" /\ log[k].n = -1

\* C19: a failed request of a lookup strategy fails the resolution at once with a query
\* error: the failed request is the last operation of the history (it is not sent
\* again, no later facet is probed or resolved, no aggregate entry is written), it is
\* the only request of its facet, and the aggregate entry the resolution missed is
\* still absent
C19_StrategyFailureFailsResolution ==
    \A k \in DOMAIN log :
        StrategyFailed(k) =>
            /\ k = Len(log)
            /\ rl.pc = "failed"
            /\ rc.pc = "idle"
            /\ err = "LocationQueryError"
            /\ \A j \in DOMAIN log :
                  (j # k /\ log[j].ev = "strategy") => log[j].facet # log[k].facet
            /\ \A j \in DOMAIN log : log[j].ev # "put"
            /\ AggregateLookup(0) => rl.key \notin DOMAIN cache

\* C19 witness: with a cache configured, resolveLocations has failed on the request of
\* a strategy after a record of an earlier facet had been yielded
C19_Witness ==
    /\ rl.mode = "many"
    /\ rl.useCache
    /\ rl.pc = "failed"
    /\ log # << >> /\ StrategyFailed(Len(log))
    /\ log[Len(log)].key # "resolveLocationByIpAddress"
    /\ out # << >>

\* C20 as stated: when a provider result lacks a coordinate pair, the error the lookup
\* strategy raises to its caller is CouldNotResolveLocationError
C20_MissingCoordinatesRaiseCouldNotResolve ==
    \A k \in DOMAIN log :
        (log[k].ev = "yield" /\ log[k].key = "live" /\ log[k].n = -1) =>
            err = "CouldNotResolveLocationError"

(***************************************************************************)
(* The cache store                                                         *)
(***************************************************************************)
\* the operations of the history that call the cache store
StoreOps == {k \in DOMAIN log : log[k].ev \in {"get", "probe", "read", "put"}}

C22_NoStoreNoCaching ==
    ~cacheOn =>
        /\ cache = << >>
        /\ ~rl.useCache
        /\ err # "CacheError"
        /\ \A c \in Range(cascaded) : c.src # "cache"
        /\ \A k \in DOMAIN log :
              /\ log[k].ev \notin {"get", "put", "read"}
              /\ log[k].ev = "probe" =>
                    /\ log[k].n = 0
                    /\ IF k = Len(log)
                       THEN rl.pc = "run" /\ rc.pc = "live" /\ rc.facet = log[k].facet
                       ELSE /\ log[k + 1].ev = "strategy"
                            /\ log[k + 1].facet = log[k].facet

\* C22 witness: a resolver without a store has drained a resolution in which a facet
\* was probed and its live strategy yielded a record
C22_Witness ==
    /\ ~cacheOn
    /\ rl.pc = "done"
    /\ \E k \in DOMAIN log : log[k].ev = "probe"
    /\ out # << >>

(***************************************************************************)
(* Properties of the conversion functions                                  *)
(***************************************************************************)
\* the calls of a function among the calls made
CallsOf(fn) == {i \in DOMAIN conv : conv[i].fn = fn}

\* C23 as stated: queryFromLocation and locationFromQuery are pure: after the call the
\* argument object has exactly the fields and values it had before
C23_ConversionsLeaveArgumentAlone ==
    \A i \in CallsOf("queryFromLocation") \cup CallsOf("locationFromQuery") :
        conv[i].after = conv[i].arg

\* the calls made on the value the call before returned
Chained(fn1, fn2) ==
    {i \in DOMAIN conv : i > 1 /\ conv[i - 1].fn = fn1 /\ conv[i].fn = fn2}

\* the field-by-field form of a record: what locationFromQuery has returned, or a
\* record written out with its safe label, point type and identifier
IsRecordShaped(x) ==
    /\ ~IsNull(x)
    /\ Has(x, "id") /\ Has(x, "safeLabel")
    /\ x.safeLabel = LabelLocationSafe(x)
    /\ (DOMAIN x) \cap {"fromCache", "ipAddress", "resolveIpWithGeo"} = {}
    /\ Get(x, "location") # NoLoc => DOMAIN x.location = {"coordinates", "type"}

SharedFields == {"address", "locality", "administrativeLevel1", "administrativeLevel2", "country"}

\* the identifier of an object: its record id (_id), else its id
IdentifierOf(x) == Or(Get(x, "_id"), Get(x, "id"))

\* the coordinate pair of an object, << >> when it has none
CoordinatesOf(x) ==
    IF Get(x, "location") # NoLoc /\ Has(x.location, "coordinates")
    THEN x.location.coordinates ELSE << >>

\* C25: round trip: queryFromLocation applied to what locationFromQuery returned for an
\* object keeps the object's identifier, address, locality, administrative levels 1 and
\* 2 and country, and its coordinate pair in the same [longitude, latitude] order
C25_RoundTripPreservesSharedFields ==
    \A i \in Chained("locationFromQuery", "queryFromLocation") :
        LET R == conv[i - 1].arg
            Q == conv[i].ret
        IN  ~IsNull(R) =>
               /\ \A f \in SharedFields : Get(Q, f) = Get(R, f)
               /\ Get(Q, "id") = IdentifierOf(R)
               /\ Get(Q, "_id") = IdentifierOf(R)
               /\ CoordinatesOf(Q) = CoordinatesOf(R)

\* C25 witness: the round trip of a record with an identifier, an address, a country
\* and a coordinate pair whose longitude and latitude differ
C25_Witness ==
    \E i \in Chained("locationFromQuery", "queryFromLocation") :
        LET R == conv[i - 1].arg
        IN  /\ IsRecordShaped(R)
            /\ Truthy(Get(R, "id")) /\ Truthy(Get(R, "address")) /\ Truthy(Get(R, "country"))
            /\ Len(CoordinatesOf(R)) = 2
            /\ CoordinatesOf(R)[1] # CoordinatesOf(R)[2]
            /\ CoordinatesOf(conv[i].ret) = CoordinatesOf(R)

\* field k of the query Q is accounted for by the object R it was made from: copied, or
\* one of the derivations (region from the country, radius bounds defaulted to 0,
\* identifier from the record id else the id)
Accounted(R, Q, k) ==
    CASE k = "region" ->
           IF Get(R, "region") # Undef
           THEN Q[k] = (IF Truthy(Get(R, "region")) THEN toLowerCase(Get(R, "region"))
                        ELSE Get(R, "region"))
           ELSE /\ Truthy(Get(R, "country"))
                /\ Q[k] = (IF Truthy(byIsoInternet(Get(R, "country")))
                           THEN toLowerCase(byIsoInternet(Get(R, "country")))
                           ELSE byIsoInternet(Get(R, "country")))
      [] k \in {"id", "_id"} -> Q[k] = IdentifierOf(R)
      [] k = "location" ->
           /\ Q[k].coordinates = CoordinatesOf(R) /\ Has(R.location, "coordinates")
           /\ DOMAIN Q[k] = {"coordinates", "maxDistance", "minDistance"}
           /\ \A b \in {"maxDistance", "minDistance"} :
                  Q[k][b] = (IF Has(R.location, b) THEN R.location[b] ELSE 0)
      [] OTHER -> Has(R, k) /\ Q[k] = R[k]

UndefinedFields(x) == {k \in DOMAIN x : x[k] = UndefOf(k)}

\* C27: queryFromLocation and locationFromQuery each return null exactly when the
\* argument is null, and a query returned by queryFromLocation has no field whose value
\* is undefined, at the top level or inside its location
C27_NullOnlyFromNullAndNoUndefinedField ==
    \A i \in CallsOf("queryFromLocation") \cup CallsOf("locationFromQuery") :
        /\ IsNull(conv[i].ret) <=> IsNull(conv[i].arg)
        /\ (conv[i].fn = "queryFromLocation" /\ ~IsNull(conv[i].arg)) =>
              /\ UndefinedFields(conv[i].ret) = {}
              /\ Has(conv[i].ret, "location") =>
                    /\ DOMAIN conv[i].ret.location = {"coordinates", "maxDistance", "minDistance"}
                    /\ conv[i].ret.location.maxDistance \in Nat
                    /\ conv[i].ret.location.minDistance \in Nat

\* C27 witness: queryFromLocation was called on an object with an undefined-valued
\* field and returned a query without that field
C27_Witness ==
    \E i \in CallsOf("queryFromLocation") :
        /\ ~IsNull(conv[i].arg) /\ ~IsNull(conv[i].ret)
        /\ UndefinedFields(conv[i].arg) # {}
        /\ UndefinedFields(conv[i].arg) \cap DOMAIN conv[i].ret = {}

\* a null argument was given to each of the two conversions
NullArgumentsConverted ==
    /\ Len(conv) = 2
    /\ IsNull(conv[1].arg) /\ conv[1].fn = "locationFromQuery"
    /\ IsNull(conv[2].arg) /\ conv[2].fn = "queryFromLocation" /\ IsNull(conv[2].ret)

KeysDiffer ==
    \E i \in Chained("cacheKey", "cacheKey") :
        LET q1 == queryFromLocation(conv[i - 1].arg)
            q2 == queryFromLocation(conv[i].arg)
        IN  /\ DOMAIN q1 = DOMAIN q2
            /\ Cardinality({k \in DOMAIN q1 : q1[k] # q2[k]}) = 1
            /\ conv[i - 1].ret # conv[i].ret

\* the component names in the order of the claim, with the field each is taken from
ComponentOrder ==
    << << "locality", "locality" >>,
       << "administrative_area_level_2", "administrativeLevel2" >>,
       << "administrative_area_level_1", "administrativeLevel1" >>,
       << "country", "country" >> >>

\* the entries expected for an object: the components its canonical query has, in order
PresentComponents(x) ==
    LET q == queryFromLocation(x)
        present == SelectSeq(ComponentOrder, LAMBDA p : Has(q, p[2]))
    IN  [i \in DOMAIN present |-> << present[i][1], q[present[i][2]] >>]

\* the pipe-delimited filter expected for a sequence of entries
RECURSIVE ExpectedFilter(_)
ExpectedFilter(entries) ==
    IF entries = << >> THEN ""
    ELSE LET e == Head(entries)
             name == IF e[1] \in {"locality", "country"} THEN e[1] ELSE "administrative_area"
             item == name \o ":" \o replaceWhitespace(e[2])
         IN  IF Len(entries) = 1 THEN item ELSE item \o "|" \o ExpectedFilter(Tail(entries))

\* C29: assembleAddressComponents returns entries for exactly the components present in
\* the canonical query, each with the query's value, in the order locality,
\* administrative_area_level_2, administrative_area_level_1, country; the filter of the
\* address-components request lists the same components in that order, separated by |
C29_ComponentsInFixedOrder ==
    /\ \A i \in CallsOf("assembleAddressComponents") :
           conv[i].ret = PresentComponents(conv[i].arg)
    /\ \A i \in CallsOf("resolveLocationByAddressComponents") :
           conv[i].ret.components = ExpectedFilter(PresentComponents(conv[i].arg))

\* C29 witness: the components of an object that has all four were assembled
C29_Witness ==
    \E i \in CallsOf("assembleAddressComponents") :
        /\ Len(conv[i].ret) = 4
        /\ conv[i].ret[1][1] = "locality" /\ conv[i].ret[4][1] = "country"

\* the request for an object with all four components has the filter written out here
FilterOfFullRecord ==
    \E i \in CallsOf("resolveLocationByAddressComponents") :
        conv[i].ret.components =
            "locality:Springfield|administrative_area:Sangamon+County|administrative_area:Illinois|country:US"

(***************************************************************************)
(* Normalization of provider responses                                     *)
(***************************************************************************)
\* the n-th lowest number of a set of numbers, 0 when it has fewer than n
RECURSIVE NthLowest(_, _)
NthLowest(L, n) ==
    IF L = {} THEN 0
    ELSE LET m == CHOOSE v \in L : \A w \in L : v <= w
         IN  IF n = 1 THEN m ELSE NthLowest(L \ {m}, n - 1)

\* the name a normalized record should carry as its n-th administrative level
ExpectedLevel(L, n) == IF NthLowest(L, n) = 0 THEN Undef ELSE AdminName(NthLowest(L, n))

\* C30 as stated: administrative level 1 and 2 of a normalized record are the names of
\* the lowest and the second lowest administrative_area_level_N of the raw result,
\* two-digit N included
C30_TwoNumericallyLowestLevels ==
    \A i \in CallsOf("processGoogleResponse") :
        /\ conv[i].ret.administrativeLevel1 = ExpectedLevel(conv[i].levels, 1)
        /\ conv[i].ret.administrativeLevel2 = ExpectedLevel(conv[i].levels, 2)

\* with one-digit levels only, the record carries the two numerically lowest
OneDigitLevelsInOrder ==
    \A i \in CallsOf("processGoogleResponse") :
        MaxAdminLevel \notin conv[i].levels =>
           /\ conv[i].ret.administrativeLevel1 = ExpectedLevel(conv[i].levels, 1)
           /\ conv[i].ret.administrativeLevel2 = ExpectedLevel(conv[i].levels, 2)

(***************************************************************************)
(* The safe label                                                          *)
(***************************************************************************)
\* a value that is there and not empty
NonEmpty(v) == v \notin {Undef, Null, ""}

\* the label the description gives for an object
DescribedLabel(x) ==
    LET first == IF NonEmpty(Get(x, "locality")) THEN Get(x, "locality")
                 ELSE Get(x, "administrativeLevel2")
        named == SelectSeq(<< first, Get(x, "administrativeLevel1"), Get(x, "countryName") >>,
                           NonEmpty)
    IN  IF Len(named) = 3 THEN named[1] \o ", " \o named[2] \o ", " \o named[3]
        ELSE IF Len(named) = 2 THEN named[1] \o ", " \o named[2]
        ELSE IF Len(named) = 1 THEN named[1]
        ELSE IF NonEmpty(Get(x, "address")) THEN Get(x, "address")
        ELSE ""

\* C31 as stated: LabelLocationSafe returns the non-empty parts among (locality, else
\* administrative level 2), administrative level 1 and country name joined with ", ",
\* the address when there are none, the empty string when that is absent too, and it
\* throws for no input
C31_SafeLabelNeverThrows ==
    \A i \in CallsOf("LabelLocationSafe") :
        /\ ~conv[i].threw
        /\ conv[i].ret = DescribedLabel(conv[i].arg)

\* for every input that is an object the label is the described one and nothing is thrown
LabelOfObjects ==
    \A i \in CallsOf("LabelLocationSafe") :
        ~IsNull(conv[i].arg) => ~conv[i].threw /\ conv[i].ret = DescribedLabel(conv[i].arg)

\* labels of each kind were computed: three parts, the address, the empty string
ThreePartLabel ==
    \E i \in CallsOf("LabelLocationSafe") : conv[i].ret = "Springfield, Illinois, United States"
AddressLabel ==
    \E i \in CallsOf("LabelLocationSafe") :
        conv[i].ret = "1 Main St" /\ Get(conv[i].arg, "address") = "1 Main St"
EmptyLabel ==
    \E i \in CallsOf("LabelLocationSafe") : ~conv[i].threw /\ conv[i].ret = ""

(***************************************************************************)
(* The IP database                                                         *)
(***************************************************************************)
\* C32 as stated: the IP database is opened at most once on a resolver, whatever the
\* resolutions by IP address on it and however they interleave
C32_DatabaseOpenedAtMostOnce == geo.opened <= 1

\* once geoipInstance is set no further open is started
NoOpenAfterInstanceSet ==
    [][geo.geoipInstance # 0 => geo'.opened = geo.opened]_vars

\* a resolution started after the first open resolved used the stored reader
SecondRunReusesReader ==
    \E p \in Procs : geo.runs[p] = 1 /\ geo.pc[p] = "ready" /\ geo.opened = 1

(***************************************************************************)
(* IP escalation                                                           *)
(***************************************************************************)
\* a drained resolveLocations of an input that carries the IP address only and asks for
\* escalation, not served from the aggregate entry, whose IP facet yielded its record
EscalationDrained ==
    /\ rl.mode = "many"
    /\ rl.pc = "done"
    /\ FacetsPresent(rl.input) = {"ipAddress"}
    /\ Get(rl.input, "resolveIpWithGeo") = "true"
    /\ ~AggregateLookup(1)
    /\ \E k \in DOMAIN log : log[k].ev = "yield" /\ log[k].facet = "ipAddress"

\* C33 as stated: with resolveIpWithGeo true and an input carrying the IP address only,
\* the cascade, after yielding the IP record, goes on and requests a geocoding strategy
\* with the data of that record
C33_EscalationRequestsGeocoding ==
    EscalationDrained =>
        \E k \in StrategyCalls : log[k].key # "resolveLocationByIpAddress"

\* what the code does instead: the IP lookup is the only strategy requested
EscalationStopsAtIpRecord ==
    EscalationDrained =>
        /\ Cardinality(StrategyCalls) = 1
        /\ \A k \in DOMAIN log : log[k].ev # "probe"
        /\ Len(out) = 1

\* with a country in the input as well, and the database placing the address in that
\* country, the cascade does go on to the country facet
EscalationWithCountry ==
    /\ rl.mode = "many" /\ rl.pc = "done"
    /\ FacetsPresent(rl.input) = {"ipAddress", "country"}
    /\ Get(rl.input, "resolveIpWithGeo") = "true"
    /\ \E k \in StrategyCalls : log[k].key = "resolveLocationByAddressComponents"

(***************************************************************************)
(* Narrow cache entries                                                    *)
(***************************************************************************)
\* the probes of the history that missed and whose facet was then resolved live
LiveResolvedProbes ==
    {k \in DOMAIN log :
        /\ log[k].ev = "probe" /\ log[k].n = 0
        /\ \E j \in StrategyCalls : j > k /\ log[j].facet = log[k].facet /\ log[j].n >= 0}

\* C34 as stated: once a resolution with a cache has ended, the cache holds an entry
\* under the narrow key of every facet the cascade probed and then resolved live
C34_NarrowEntriesWritten ==
    (cacheOn /\ rl.mode = "many" /\ rl.pc = "done") =>
        \A k \in LiveResolvedProbes : log[k].key \in DOMAIN cache

\* the only key a resolution ever writes is the aggregate key of its input
OnlyAggregateKeyWritten ==
    [][cache' # cache =>
          /\ DOMAIN cache' = (DOMAIN cache) \cup {cacheKey(rl.input)}
          /\ \A key \in DOMAIN cache : key # cacheKey(rl.input) => cache'[key] = cache[key]]_vars

\* a drained resolution of two facets, both probed and resolved live, has left one
\* entry in the cache
TwoFacetsOneEntry ==
    /\ cacheOn /\ rl.mode = "many" /\ rl.pc = "done"
    /\ Cardinality({log[k].facet : k \in LiveResolvedProbes}) = 2
    /\ Cardinality(DOMAIN cache) = 1

(***************************************************************************)
(* The client                                                              *)
(***************************************************************************)
\* the RPC calls and the returned records that come from input i
RpcOf(i) == {k \in DOMAIN client.rpc : client.rpc[k].from = i}
OutOf(i) == {k \in DOMAIN client.out : client.out[k].from = i}

C36_StoppedConsumerLeavesStoreUnchanged ==
    /\ [][cache' # cache =>
             /\ rl.pc = "run" /\ rl'.pc = "done"
             /\ log'[Len(log')].ev = "put"]_vars
    /\ [](rl.pc = "stopped" => \A k \in DOMAIN log : log[k].ev # "put")

\* C36 witness: with a cache configured, the consumer stopped after the first element
\* of a resolution that missed the aggregate entry, and no entry is under its key
C36_Witness ==
    /\ rl.pc = "stopped"
    /\ rl.useCache /\ AggregateLookup(0)
    /\ Len(out) = 1
    /\ rl.key \notin DOMAIN cache

(***************************************************************************)
(* Probes while the store changes                                          *)
(***************************************************************************)
\* the reads of the history whose facet the cascade has left
FinishedReads ==
    {k \in DOMAIN log : log[k].ev = "read" /\ (k < Len(log) \/ rc.pc \in {"end", "idle"})}

\* C37 as stated: a cascade that ended because a probe counted a hit has yielded at
\* least one record read from that probe, whatever other users of the store write or
\* remove between the count and the read
C37_ProbeHitYieldsEvenUnderRace ==
    \A k \in FinishedReads :
        /\ log[k].n >= 1
        /\ rl.pc \in {"run", "done"} =>
              \E c \in Range(cascaded) : c.facet = log[k].facet /\ c.src = "cache"

\* the cascade ended on a probe that counted a hit and read nothing
HitWithoutRecord ==
    /\ rl.pc = "done"
    /\ \E k \in DOMAIN log : log[k].ev = "read" /\ log[k].n = 0
    /\ cascaded = << >> /\ out = << >>

(***************************************************************************)
(* A timezone answer without a zone id                                     *)
(***************************************************************************)
\* C38 as stated: every element yielded on the cache-miss path is a non-null record
\* with the identifier of the cascade record it came from; when the timezone lookup
\* answers without a zone id, the record is yielded with the fields it had
C38_MissPathElementsAreRecords ==
    \A i \in DOMAIN cascaded :
        cascaded[i].fate = "yielded" =>
            /\ cascaded[i].at \in DOMAIN out
            /\ LET element == out[cascaded[i].at]
                   had == locationFromQuery(cascaded[i].rec)
               IN  /\ ~IsNull(element)
                   /\ Get(element, "id") = Get(cascaded[i].rec, "id")
                   /\ cascaded[i].tz = "none" =>
                         \A k \in DOMAIN had : k \in DOMAIN element /\ element[k] = had[k]

\* the same for every timezone outcome but the answer without a zone id
ElementsAreRecordsUnlessNoZone ==
    \A i \in DOMAIN cascaded :
        (cascaded[i].fate = "yielded" /\ cascaded[i].tz # "none") =>
            /\ cascaded[i].at \in DOMAIN out
            /\ ~IsNull(out[cascaded[i].at])
            /\ Get(out[cascaded[i].at], "id") = Get(cascaded[i].rec, "id")

\* a record whose timezone lookup answered without a zone id was yielded as null
NullElementYielded ==
    \E i \in DOMAIN cascaded :
        /\ cascaded[i].fate = "yielded" /\ cascaded[i].tz = "none"
        /\ ~IsNull(cascaded[i].rec)
        /\ IsNull(out[cascaded[i].at])

(***************************************************************************)
(* Records without an identifier                                           *)
(***************************************************************************)
\* the cascade records of a resolveMany resolution that carry no identifier, in
\* cascade order
Identifierless ==
    {i \in DOMAIN cascaded :
        rl.mode = "many" /\ ~IsNull(cascaded[i].rec) /\ Get(cascaded[i].rec, "id") = Undef}

\* C39: on the cache-miss path the records without identifier share one identifier:
\* the first of them in cascade order is yielded and every later one is dropped as a
\* duplicate, so at most one is yielded per resolution
C39_IdentifierlessRecordsShareOneIdentifier ==
    /\ \A i \in Identifierless :
          cascaded[i].fate = IF \E j \in Identifierless : j < i THEN "duplicate" ELSE "yielded"
    /\ Cardinality({i \in Identifierless : cascaded[i].fate = "yielded"}) <= 1
    /\ Identifierless # {} => Undef \in basket

\* two records without identifier came from two facets: the second was dropped
SecondIdentifierlessDropped ==
    \E i, j \in Identifierless :
        /\ i < j
        /\ cascaded[i].facet # cascaded[j].facet
        /\ cascaded[i].fate = "yielded" /\ cascaded[j].fate = "duplicate"
        /\ Len(out) = 1

(***************************************************************************)
(* A stored empty list                                                     *)
(***************************************************************************)
\* the store holds an empty list under the aggregate key of the resolution
EmptyEntryStored == rl.key \in DOMAIN cache /\ cache[rl.key] = serializeObject(<< >>)

\* the resolution has read the store and has not written to it: an entry under its
\* key was there before it began
ReadNotWritten ==
    /\ rl.mode = "many" /\ rl.useCache
    /\ log # << >>
    /\ \A k \in DOMAIN log : log[k].ev # "put"

\* C40: a drained resolveMany whose cascade yielded no record stores an empty list
\* under the aggregate key, and while that entry is in the store a resolveMany of the
\* same query yields nothing and evaluates no facet
C40_EmptyResultIsCachedAndServed ==
    /\ (rl.mode = "many" /\ rl.useCache /\ rl.pc = "done" /\ out = << >>) => EmptyEntryStored
    /\ (ReadNotWritten /\ EmptyEntryStored) =>
          /\ out = << >> /\ cascaded = << >>
          /\ Len(log) = 1 /\ log[1].ev = "get"
          /\ log[1].n # -1 => log[1].n = 1 /\ rl.pc \in {"cached", "done"}
          /\ rc.pc = "idle"

\* the second resolution of a query found the empty list the first one stored, and
\* ended with nothing yielded
EmptyListServed ==
    /\ calls = 2
    /\ rl.mode = "many" /\ rl.pc = "done"
    /\ AggregateLookup(1)
    /\ EmptyEntryStored
    /\ out = << >>

====
